---- MODULE Spec2Model ----
(***************************************************************************)
(* A model of the rvm bytecode virtual machine (package rvm): the thread   *)
(* state of thread.go (aliased registers, operand stack with its backing   *)
(* array, frame chain), the instruction decoders of instr.go, the encoders *)
(* of instr+aux.go, the opcode handlers of opcode.go and the arithmetic    *)
(* of the Int, Uint and Float values.  Spec is the thread as the embedder  *)
(* drives it, CodecSpec applies the encoders, ValueSpec applies the        *)
(* arithmetic, and ProgSpec runs programs set up as thread_test.go does.   *)
(*                                                                         *)
(* An instruction word is a 32-bit pattern, held as the signed integer of  *)
(* the same two's-complement bits (bit 31 set <=> the integer is           *)
(* negative).  A 64-bit Instruction is the pair of its low and high word.  *)
(* Go slice positions are 0-based; the sequences here are 1-based, so Go's *)
(* stack[i] is stack[i + 1].                                               *)
(***************************************************************************)
EXTENDS Integers, Sequences, FiniteSets, TLC

VARIABLES pc, ebp, code, consts, stack, tail, frames, reg, fault, mode, runs,
          last, err, built, calc

vars == <<pc, ebp, code, consts, stack, tail, frames, reg, fault, mode, runs,
          last, err, built, calc>>

(***************************************************************************)
(* Bounds of the model.                                                    *)
(***************************************************************************)
\* the embedder pushes no value onto a stack of this length or longer
MaxStack == 3
\* the embedder pushes no frame onto a frame chain of this depth
MaxFrames == 1
\* capacity of the stack's backing array in NewThread (defaultStackSize,
\* 512 in the source), scaled down so that growth past the capacity happens
InitCap == 2
\* the embedder enters Run at most this many times
MaxRuns == 1

(***************************************************************************)
(* Program constants.                                                      *)
(***************************************************************************)
registerCount == 64
specialRegisters == 3
opRegMask == 63

(***************************************************************************)
(* Values.  A Value is any Go value; the model keeps its dynamic type and  *)
(* an integer payload.  Nil is the empty interface value.  "Cmp" is an     *)
(* embedder-supplied value with the LessThan and EqualTo capabilities      *)
(* (and no numeric capability); "int" and "float64" are an untyped Go int  *)
(* and float as pushed by the tests.  The payload of a Float or a float64  *)
(* is a fraction [n, d], d > 0; d = 0 stands for an infinity or a NaN.     *)
(***************************************************************************)
Nil == [k |-> "nil", v |-> 0]
IntV(n) == [k |-> "Int", v |-> n]
UintV(n) == [k |-> "Uint", v |-> n]
FloatV(n) == [k |-> "Float", v |-> [n |-> n, d |-> 1]]
FloatQ(n, d) == [k |-> "Float", v |-> [n |-> n, d |-> d]]
GoInt(n) == [k |-> "int", v |-> n]
GoFloat(n, d) == [k |-> "float64", v |-> [n |-> n, d |-> d]]
Cmp(n) == [k |-> "Cmp", v |-> n]

\* the values the embedder and the constants pools supply
Values == {Nil, IntV(-1), IntV(1), IntV(2), Cmp(1), Cmp(2)}

Nils(n) == [i \in 1..n |-> Nil]

\* toarith: the numeric kinds convert, everything else is a type fault
IsArith(v) == v.k \in {"Int", "Uint", "Float", "int", "float64"}

\* Int(f) of a Float: the fraction truncated toward zero
TruncFloat(f) == IF f.n >= 0 THEN f.n \div f.d ELSE -((-f.n) \div f.d)

\* toint: the int64 of a numeric value
toint(v) == IF v.k \in {"Float", "float64"} THEN TruncFloat(v.v) ELSE v.v

(***************************************************************************)
(* Indices.                                                                *)
(***************************************************************************)
RegisterIndex(n) == [kind |-> "reg", n |-> n]
StackIndex(n) == [kind |-> "stack", n |-> n]
constIndex(n) == [kind |-> "const", n |-> n]
NilIndex == [kind |-> "nil", n |-> 0]

(***************************************************************************)
(* The thread as one record, and the faults an operation can raise.        *)
(* fault = "none" while the operation has not panicked; once a fault is    *)
(* set, the rest of the operation does not run and the state stays as the  *)
(* panic left it.                                                          *)
(***************************************************************************)
Th == [pc |-> pc, ebp |-> ebp, code |-> code, consts |-> consts,
       stack |-> stack, tail |-> tail, frames |-> frames, reg |-> reg,
       fault |-> "none"]

Raise(t, f) == [t EXCEPT !.fault = f]

Then(t, F(_)) == IF t.fault # "none" THEN t ELSE F(t)

Cap(t) == Len(t.stack) + Len(t.tail)

\* resizeStack: zero the tail from top on, then truncate
\* mutation: the shrink that leaves the dropped values in the backing array
resizeStackUnzeroed(t, top) ==
    IF Len(t.stack) <= top THEN t
    ELSE [t EXCEPT !.stack = SubSeq(t.stack, 1, top),
                   !.tail = SubSeq(t.stack, top + 1, Len(t.stack)) \o t.tail]

resizeStack(t, top) ==
    IF Len(t.stack) <= top THEN t
    ELSE [t EXCEPT !.stack = SubSeq(t.stack, 1, top),
                   !.tail = Nils(Len(t.stack) - top) \o t.tail]

\* growStack: make room for elems more entries; the length stays
\* mutation: the growth that also lengthens the stack by elems nil entries
growStackLengthens(t, elems) ==
    LET next == Len(t.stack) + elems IN
    IF next <= Cap(t) THEN t
    ELSE [t EXCEPT !.stack = t.stack \o Nils(elems), !.tail = <<>>]

growStack(t, elems) ==
    LET next == Len(t.stack) + elems IN
    IF next <= Cap(t) THEN t
    ELSE [t EXCEPT !.tail = Nils(next - Len(t.stack))]

\* append of one value: in place while there is room, else into a fresh
\* array of twice the capacity (runtime growslice for short slices)
AppendCap(c) == IF c = 0 THEN 1 ELSE 2 * c

Push(t, v) ==
    IF Len(t.tail) > 0
    THEN [t EXCEPT !.stack = Append(t.stack, v), !.tail = Tail(t.tail)]
    ELSE [t EXCEPT !.stack = Append(t.stack, v),
                   !.tail = Nils(AppendCap(Cap(t)) - Len(t.stack) - 1)]

\* Pop: the thread after the pop; PopValue is the value returned
Pop(t) ==
    LET top == Len(t.stack) - 1 IN
    IF top < 0 THEN Raise(t, "underflow") ELSE resizeStack(t, top)

PopValue(t) == IF Len(t.stack) = 0 THEN Nil ELSE t.stack[Len(t.stack)]

\* Go's copy(dst, src) on the stack: dst = stack[newTop:], src = stack[oldTop:]
copyDown(s, newTop, oldTop) ==
    LET n == IF Len(s) - newTop < Len(s) - oldTop
             THEN Len(s) - newTop ELSE Len(s) - oldTop IN
    [i \in 1..Len(s) |->
        IF i > newTop /\ i <= newTop + n THEN s[oldTop + (i - newTop)] ELSE s[i]]

copyAndResizeStack(t, newTop, keep) ==
    IF keep < 0 THEN Raise(t, "underflow")
    ELSE IF newTop < 0 THEN Raise(t, "underflow")
    ELSE IF newTop + keep = Len(t.stack) THEN t
    ELSE IF keep > 0 /\ newTop > Len(t.stack) - keep THEN Raise(t, "underflow")
    ELSE IF keep > 0
         THEN resizeStack([t EXCEPT !.stack =
                              copyDown(t.stack, newTop, Len(t.stack) - keep)],
                          newTop + keep)
         ELSE resizeStack(t, newTop + keep)

Frame(t) == [pc |-> t.pc, ebp |-> t.ebp, code |-> t.code, consts |-> t.consts]

pushFrame(t, ebpOffset, fn) ==
    IF ebpOffset > 0 THEN Raise(t, "stackrange")
    ELSE IF t.ebp - ebpOffset > Len(t.stack) + ebpOffset THEN Raise(t, "underflow")
    ELSE [t EXCEPT !.frames = Append(t.frames, Frame(t)),
                   !.ebp = Len(t.stack) + ebpOffset,
                   !.pc = fn.pc, !.code = fn.code, !.consts = fn.consts]

\* replaceFrame: the stack is cut down to EBP + keep, then fn is installed;
\* the chain is not touched
\* mutation: the replacement that saves the replaced frame on the chain
replaceFrameSaves(t, keep, fn) ==
    Then(copyAndResizeStack(t, t.ebp, keep),
         LAMBDA u : [u EXCEPT !.pc = fn.pc, !.code = fn.code,
                              !.consts = fn.consts,
                              !.frames = Append(u.frames, Frame(t))])

replaceFrame(t, keep, fn) ==
    Then(copyAndResizeStack(t, t.ebp, keep),
         LAMBDA u : [u EXCEPT !.pc = fn.pc, !.code = fn.code,
                              !.consts = fn.consts])

\* popFrame: the chain is cut before the stack is resized, so an underflow
\* raised by copyAndResizeStack leaves the chain one shorter
\* mutation: the restore that leaves the callee's EBP in place
restoreFrameKeepEbp(u, frame) ==
    [u EXCEPT !.pc = frame.pc,
              !.code = frame.code, !.consts = frame.consts]

restoreFrame(u, frame) ==
    [u EXCEPT !.pc = frame.pc, !.ebp = frame.ebp,
              !.code = frame.code, !.consts = frame.consts]

popFrame(t, keep) ==
    LET top == Len(t.frames) - 1 IN
    IF top < 0 THEN Raise(t, "underflow")
    ELSE LET frame == t.frames[top + 1]
             cut == [t EXCEPT !.frames = SubSeq(t.frames, 1, top)]
         IN Then(copyAndResizeStack(cut, t.ebp, keep),
                 LAMBDA u : restoreFrame(u, frame))

(***************************************************************************)
(* Index load and store (thread.go).  A load gives the value and the fault *)
(* raised, a store gives the thread after it.                              *)
(***************************************************************************)
Loaded(v) == [v |-> v, fault |-> "none"]
LoadFault(f) == [v |-> Nil, fault |-> f]

\* StackIndex.abs: frame-relative from EBP when i >= 0, top-relative else;
\* -1 stands for the stack-range panic
\* mutation: the resolution that counts frame-relative indices from the
\* bottom of the stack
absFromBottom(t, i) ==
    LET n == Len(t.stack)
        absIndex == IF i < 0 THEN n + i ELSE i
    IN IF absIndex < 0 \/ absIndex >= n THEN -1 ELSE absIndex

abs(t, i) ==
    LET n == Len(t.stack)
        absIndex == IF i < 0 THEN n + i ELSE t.ebp + i
    IN IF absIndex < 0 \/ absIndex >= n THEN -1 ELSE absIndex

\* constIndex.load: the guard lets k = len(consts) through to the slice
\* access, which then panics in the runtime
constLoad(t, k) ==
    IF k < 0 \/ k > Len(t.consts) THEN LoadFault("constindex")
    ELSE IF k >= Len(t.consts) THEN LoadFault("runtime")
    ELSE Loaded(t.consts[k + 1])

stackLoad(t, i) ==
    IF abs(t, i) < 0 THEN LoadFault("stackrange")
    ELSE Loaded(t.stack[abs(t, i) + 1])

registerLoad(t, i) ==
    CASE i = 0 -> Loaded(IntV(t.pc))
      [] i = 1 -> Loaded(IntV(t.ebp))
      [] i = 2 -> Loaded(IntV(Len(t.stack)))
      [] OTHER -> IF i - specialRegisters < 0
                     \/ i - specialRegisters >= registerCount - specialRegisters
                  THEN LoadFault("register")
                  ELSE Loaded(t.reg[i])

load(t, ix) ==
    CASE ix.kind = "reg" -> registerLoad(t, ix.n)
      [] ix.kind = "stack" -> stackLoad(t, ix.n)
      [] ix.kind = "const" -> constLoad(t, ix.n)

stackStore(t, i, v) ==
    IF abs(t, i) < 0 THEN Raise(t, "stackrange")
    ELSE [t EXCEPT !.stack[abs(t, i) + 1] = v]

\* RegisterIndex.store, case 0: only integer kinds are accepted
pcStore(t, v) ==
    IF v.k \notin {"Int", "Uint", "int"} THEN Raise(t, "pctype")
    ELSE IF v.v < 0 \/ v.v > Len(t.code) THEN Raise(t, "pcrange")
    ELSE [t EXCEPT !.pc = v.v]

\* th.stack = th.stack[0:sp:cap(th.stack)]: a runtime panic when sp exceeds
\* the capacity, else the length becomes sp and the exposed slots are the
\* ones the backing array holds
reslice(t, sp) ==
    IF sp > Cap(t) THEN Raise(t, "runtime")
    ELSE [t EXCEPT !.stack = t.stack \o SubSeq(t.tail, 1, sp - Len(t.stack)),
                   !.tail = SubSeq(t.tail, sp - Len(t.stack) + 1, Len(t.tail))]

\* RegisterIndex.store, case 2
espStore(t, v) ==
    IF ~IsArith(v) THEN Raise(t, "type")
    ELSE LET sp == toint(v)
             esp == Len(t.stack)
         IN IF sp < t.ebp THEN Raise(t, "underflow")
            ELSE IF sp < esp THEN resizeStack(t, sp)
            ELSE IF sp > Cap(t) THEN reslice(growStack(t, sp - Cap(t)), sp)
            ELSE IF sp > esp THEN reslice(t, sp)
            ELSE t

\* mutation: the store that counts register 3 among the special registers
registerStoreOffByOne(t, i, v) ==
    CASE i = 0 -> pcStore(t, v)
      [] i = 1 -> Raise(t, "ebpstore")
      [] i = 2 -> espStore(t, v)
      [] OTHER -> IF i - specialRegisters <= 0
                     \/ i - specialRegisters >= registerCount - specialRegisters
                  THEN Raise(t, "register")
                  ELSE [t EXCEPT !.reg[i] = v]

registerStore(t, i, v) ==
    CASE i = 0 -> pcStore(t, v)
      [] i = 1 -> Raise(t, "ebpstore")
      [] i = 2 -> espStore(t, v)
      [] OTHER -> IF i - specialRegisters < 0
                     \/ i - specialRegisters >= registerCount - specialRegisters
                  THEN Raise(t, "register")
                  ELSE [t EXCEPT !.reg[i] = v]

\* mutation: the store that writes through a constant index
storeIntoConsts(t, ix, v) ==
    CASE ix.kind = "reg" -> registerStore(t, ix.n, v)
      [] ix.kind = "stack" -> stackStore(t, ix.n, v)
      [] ix.kind = "const" ->
           [t EXCEPT !.consts = [k \in 1..Len(t.consts) |->
                                   IF k = ix.n + 1 THEN v ELSE t.consts[k]]]

store(t, ix, v) ==
    CASE ix.kind = "reg" -> registerStore(t, ix.n, v)
      [] ix.kind = "stack" -> stackStore(t, ix.n, v)
      [] ix.kind = "const" -> Raise(t, "conststore")

(***************************************************************************)
(* 32-bit words.                                                           *)
(***************************************************************************)
Pow2(n) == 2 ^ n

\* the word with only bit 31 set
Bit31 == (-1073741824) - 1073741824

\* bits 0..30 of a word, and the word of a sign bit and 31 low bits
Low31(w) == IF w >= 0 THEN w ELSE (w + 1073741824) + 1073741824
MkWord(b31, low) == IF b31 THEN (low - 1073741824) - 1073741824 ELSE low

\* bits off .. off+len-1 of w, as an unsigned number (len <= 30)
Bits(w, off, len) == (w \div Pow2(off)) % Pow2(len)

\* w & flag # 0 for a one-bit flag
HasFlag(w, flag) == IF flag = Bit31 THEN w < 0 ELSE (w \div flag) % 2 = 1

\* the len-bit two's-complement number x as a signed integer
Signed(x, len) == IF x >= Pow2(len - 1) THEN x - Pow2(len) ELSE x

\* the low len bits of x placed at bits off .. off+len-1 (off + len <= 32):
\* what the encoders' shift pairs such as uint32(int32(x<<23))>>12 produce
Place(x, len, off) ==
    LET f == x % Pow2(len) IN
    IF off + len = 32 /\ f >= Pow2(len - 1)
    THEN MkWord(TRUE, (f - Pow2(len - 1)) * Pow2(off))
    ELSE f * Pow2(off)

RECURSIVE OrN(_, _, _)
OrN(a, b, n) ==
    IF n = 0 THEN 0
    ELSE (IF a % 2 = 1 \/ b % 2 = 1 THEN 1 ELSE 0)
         + 2 * OrN(a \div 2, b \div 2, n - 1)

\* a | b on 32-bit words
WordOr(a, b) == MkWord(a < 0 \/ b < 0, OrN(Low31(a), Low31(b), 31))

(***************************************************************************)
(* Opcodes (opcode.go) and flag bits (instr.go).                           *)
(***************************************************************************)
OpAdd == 0
OpSub == 1
OpDiv == 2
OpMul == 3
OpPow == 4
OpMod == 5
OpNeg == 6
OpArithshift == 11
OpBitshift == 12
OpRound == 13
OpTest == 14
OpJump == 15
OpPush == 16
OpPop == 17
OpReserve == 18
OpLoad == 19
OpCall == 20
opCount == 25

instrExtendedBit == 1
opCmpTestBit == 512
opCmpArgAConst == 1024
opCmpArgAStack == 1048576
opCmpArgBConst == 2097152
opCmpArgBStack == Bit31
opJumpLiteral == 64
opJumpConst == 128
opJumpStack == Bit31
opLoadDstStack == 64
opLoadSrcConst == 16384
opLoadSrcStack == 32768
opXloadDstStack == 8192
opXloadSrcConst == 1073741824
opXloadSrcStack == Bit31
opPushConst == 4096
opPushPopStack == 8192
opBinOutStack == 64
opBinArgAStack == 8192
opBinArgBConst == 1048576
opBinArgBStack == Bit31

cmpLess == 0
cmpLequal == 1
cmpEqual == 2
cmpNotEqual == 3
cmpGreater == 4
cmpGequal == 5
cmpIncludes == 6
cmpExcludes == 7

(***************************************************************************)
(* Decoders (instr.go).  An Instruction is [lo, hi]: the uint64            *)
(* lo | hi << 32.                                                          *)
(***************************************************************************)
Instr(lo, hi) == [lo |-> lo, hi |-> hi]

isExt(w) == w % 2 = 1

\* Instruction.Opcode: 12 bits wide when the extension bit is set
Opcode(i) == IF isExt(i.lo) THEN Bits(i.lo, 1, 12) ELSE Bits(i.lo, 1, 5)

\* the slot of opFuncTable that execer picks
execerSlot(i) == Bits(i.lo, 1, 5)

cmpOp(i) == Bits(i.lo, 6, 3)
cmpWant(i) == HasFlag(i.lo, opCmpTestBit)

cmpArgA(i) ==
    IF HasFlag(i.lo, opCmpArgAConst) THEN constIndex(Bits(i.lo, 11, 10))
    ELSE IF HasFlag(i.lo, opCmpArgAStack)
    THEN StackIndex(Signed(Bits(i.lo, 11, 9), 9))
    ELSE RegisterIndex(Bits(i.lo, 11, 6))

cmpArgB(i) ==
    IF HasFlag(i.lo, opCmpArgBConst) THEN constIndex(Bits(i.lo, 22, 10))
    ELSE IF HasFlag(i.lo, opCmpArgBStack)
    THEN StackIndex(Signed(Bits(i.lo, 22, 9), 9))
    ELSE RegisterIndex(Bits(i.lo, 22, 6))

\* mutation: jumpOffset that reads a constant index through the stack field
jumpOffsetNarrow(i) ==
    IF HasFlag(i.lo, opJumpLiteral)
    THEN [off |-> i.lo \div 128, ix |-> NilIndex]
    ELSE IF HasFlag(i.lo, opJumpConst)
    THEN [off |-> 0, ix |-> constIndex(Bits(i.lo, 8, 23))]
    ELSE IF HasFlag(i.lo, opJumpStack)
    THEN [off |-> 0, ix |-> StackIndex(Signed(Bits(i.lo, 8, 23), 23))]
    ELSE [off |-> 0, ix |-> RegisterIndex(Bits(i.lo, 8, 6))]

\* jumpOffset: [off, ix], ix = NilIndex for the literal form
jumpOffset(i) ==
    IF HasFlag(i.lo, opJumpLiteral)
    THEN [off |-> i.lo \div 128, ix |-> NilIndex]
    ELSE IF HasFlag(i.lo, opJumpConst)
    THEN [off |-> 0, ix |-> constIndex(Bits(i.lo, 8, 24))]
    ELSE IF HasFlag(i.lo, opJumpStack)
    THEN [off |-> 0, ix |-> StackIndex(Signed(Bits(i.lo, 8, 23), 23))]
    ELSE [off |-> 0, ix |-> RegisterIndex(Bits(i.lo, 8, 6))]

\* mutation: pushPopRange that returns the field as stored
pushPopRangeStored(i) == Bits(i.lo, 6, 6)

pushPopRange(i) == 1 + Bits(i.lo, 6, 6)

pushArg(i) ==
    IF HasFlag(i.lo, opPushConst) THEN constIndex(Bits(i.lo, 14, 18))
    ELSE IF HasFlag(i.lo, opPushPopStack) THEN StackIndex(i.lo \div 16384)
    ELSE RegisterIndex(Bits(i.lo, 14, 6))

popArg(i) ==
    IF HasFlag(i.lo, opPushPopStack) THEN StackIndex(i.lo \div 16384)
    ELSE RegisterIndex(Bits(i.lo, 14, 6))

regOut(i) ==
    IF HasFlag(i.lo, opBinOutStack)
    THEN StackIndex(Signed(Bits(i.lo, 7, 6), 6))
    ELSE RegisterIndex(Bits(i.lo, 7, 6))

argA(i) ==
    IF HasFlag(i.lo, opBinArgAStack)
    THEN StackIndex(Signed(Bits(i.lo, 14, 6), 6))
    ELSE RegisterIndex(Bits(i.lo, 14, 6))

\* argAU: the seven bits from the offset of argA on, as an unsigned number
argAU(i) == Bits(i.lo, 14, 7)

\* mutation: argB that tests the stack flag before the constant flag
argBStackFirst(i) ==
    IF HasFlag(i.lo, opBinArgBStack)
    THEN StackIndex(Signed(Bits(i.lo, 21, 10), 10))
    ELSE IF HasFlag(i.lo, opBinArgBConst) THEN constIndex(Bits(i.lo, 21, 11))
    ELSE RegisterIndex(Bits(i.lo, 21, 6))

argB(i) ==
    IF HasFlag(i.lo, opBinArgBConst) THEN constIndex(Bits(i.lo, 21, 11))
    ELSE IF HasFlag(i.lo, opBinArgBStack)
    THEN StackIndex(Signed(Bits(i.lo, 21, 10), 10))
    ELSE RegisterIndex(Bits(i.lo, 21, 6))

\* mutation: loadDst that reads every instruction with the short layout
loadDstShort(i) ==
    IF ~HasFlag(i.lo, opLoadDstStack)
    THEN RegisterIndex(Bits(i.lo, 7, 6))
    ELSE StackIndex(Signed(Bits(i.lo, 7, 7), 7))

loadDst(i) ==
    IF isExt(i.lo)
    THEN IF ~HasFlag(i.lo, opXloadDstStack)
         THEN RegisterIndex(Bits(i.lo, 14, 6))
         ELSE StackIndex(Signed(Bits(i.lo, 14, 16), 16))
    ELSE IF ~HasFlag(i.lo, opLoadDstStack)
         THEN RegisterIndex(Bits(i.lo, 7, 6))
         ELSE StackIndex(Signed(Bits(i.lo, 7, 7), 7))

\* loadSrc: the extended form reads the high word.  constIndex(i >> 32) is
\* the high word as an unsigned number; the words used here keep bit 31 of
\* a constant index clear.
loadSrc(i) ==
    IF isExt(i.lo)
    THEN IF HasFlag(i.lo, opXloadSrcStack) THEN StackIndex(i.hi)
         ELSE IF HasFlag(i.lo, opXloadSrcConst) THEN constIndex(i.hi)
         ELSE RegisterIndex(Bits(i.hi, 0, 6))
    ELSE IF HasFlag(i.lo, opLoadSrcStack)
         THEN StackIndex(Signed(Bits(i.lo, 16, 16), 16))
         ELSE IF HasFlag(i.lo, opLoadSrcConst)
         THEN constIndex(Bits(i.lo, 16, 16))
         ELSE RegisterIndex(Bits(i.lo, 16, 6))

(***************************************************************************)
(* Encoders (instr+aux.go).  An encoder gives the word and the fault it    *)
(* raised; the operand switches are folded left to right with EncOr.       *)
(***************************************************************************)
Enc(w) == [w |-> w, hi |-> 0, err |-> "none"]
EncFault(e) == [w |-> 0, hi |-> 0, err |-> e]
EncOr(e, f) ==
    IF e.err # "none" THEN e
    ELSE IF f.err # "none" THEN f
    ELSE [w |-> WordOr(e.w, f.w), hi |-> WordOr(e.hi, f.hi), err |-> "none"]

InRegs(n) == n >= 0 /\ n < registerCount

mkLoadDst(dst) ==
    CASE dst.kind = "reg" ->
           IF ~InRegs(dst.n) THEN EncFault("register")
           ELSE Enc(Place(dst.n, 6, 7))
      [] dst.kind = "stack" ->
           IF dst.n < -64 \/ dst.n > 63 THEN EncFault("register")
           ELSE Enc(WordOr(Place(dst.n, 7, 7), opLoadDstStack))
      [] OTHER -> EncFault("indextype")

mkLoadSrc(src) ==
    CASE src.kind = "reg" ->
           IF ~InRegs(src.n) THEN EncFault("register")
           ELSE Enc(Place(src.n, 6, 16))
      [] src.kind = "const" ->
           IF src.n < 0 \/ src.n > 65535 THEN EncFault("constindex")
           ELSE Enc(WordOr(Place(src.n, 16, 16), opLoadSrcConst))
      [] src.kind = "stack" ->
           IF src.n < -32768 \/ src.n > 32767 THEN EncFault("stackrange")
           ELSE Enc(WordOr(Place(src.n, 16, 16), opLoadSrcStack))
      [] OTHER -> EncFault("indextype")

mkLoadInstr(dst, src) ==
    EncOr(EncOr(Enc(OpLoad * 2), mkLoadDst(dst)), mkLoadSrc(src))

mkJumpInstr(offset, src) ==
    IF src # NilIndex /\ offset # 0 THEN EncFault("offsetandindex")
    ELSE IF src = NilIndex
    THEN IF offset < -16777216 \/ offset > 16777215 THEN EncFault("offset")
         ELSE Enc(WordOr(WordOr(OpJump * 2, Place(offset, 25, 7)), opJumpLiteral))
    ELSE EncOr(Enc(OpJump * 2),
           CASE src.kind = "reg" ->
                  IF ~InRegs(src.n) THEN EncFault("register")
                  ELSE Enc(Place(src.n, 6, 8))
             [] src.kind = "const" ->
                  IF src.n < 0 \/ src.n > 16777215 THEN EncFault("constindex")
                  ELSE Enc(WordOr(Place(src.n, 24, 8), opJumpConst))
             [] src.kind = "stack" ->
                  IF src.n < -4194304 \/ src.n > 4194303 THEN EncFault("stackrange")
                  ELSE Enc(WordOr(Place(src.n, 23, 8), opJumpStack))
             [] OTHER -> EncFault("indextype"))

\* mkXloadInstr: w is the low word and hi the high word of the uint64.
\* The source bounds are those of the 32-bit field; an operand here is a
\* model integer, so a constant index stays below 2^31.
mkXloadDst(dst) ==
    CASE dst.kind = "reg" ->
           IF ~InRegs(dst.n) THEN EncFault("register")
           ELSE Enc(Place(dst.n, 6, 14))
      [] dst.kind = "stack" ->
           IF dst.n < -32768 \/ dst.n > 32767 THEN EncFault("register")
           ELSE Enc(WordOr(Place(dst.n, 16, 14), opXloadDstStack))
      [] OTHER -> EncFault("indextype")

mkXloadSrc(src) ==
    CASE src.kind = "reg" ->
           IF ~InRegs(src.n) THEN EncFault("register")
           ELSE [w |-> 0, hi |-> src.n % 64, err |-> "none"]
      [] src.kind = "const" ->
           IF src.n < 0 THEN EncFault("constindex")
           ELSE [w |-> opXloadSrcConst, hi |-> src.n, err |-> "none"]
      [] src.kind = "stack" ->
           [w |-> opXloadSrcStack, hi |-> src.n, err |-> "none"]
      [] OTHER -> EncFault("indextype")

mkXloadInstr(dst, src) ==
    EncOr(EncOr(Enc(instrExtendedBit + OpLoad * 2), mkXloadDst(dst)),
          mkXloadSrc(src))

mkBinaryOut(out) ==
    CASE out.kind = "nil" -> Enc(Place(63, 6, 7))
      [] out.kind = "reg" ->
           IF ~InRegs(out.n) THEN EncFault("register")
           ELSE Enc(Place(out.n, 6, 7))
      [] out.kind = "stack" ->
           IF out.n < -32 \/ out.n > 31 THEN EncFault("register")
           ELSE Enc(WordOr(Place(out.n, 6, 7), opBinOutStack))
      [] OTHER -> EncFault("indextype")

mkBinaryArgA(a) ==
    CASE a.kind = "nil" -> Enc(0)
      [] a.kind = "reg" ->
           IF ~InRegs(a.n) THEN EncFault("register")
           ELSE Enc(Place(a.n, 6, 14))
      [] a.kind = "stack" ->
           IF a.n < -32 \/ a.n > 31 THEN EncFault("register")
           ELSE Enc(WordOr(Place(a.n, 6, 14), opBinArgAStack))
      [] OTHER -> EncFault("indextype")

mkBinaryArgB(b) ==
    CASE b.kind = "nil" -> Enc(0)
      [] b.kind = "reg" ->
           IF ~InRegs(b.n) THEN EncFault("register")
           ELSE Enc(Place(b.n, 6, 21))
      [] b.kind = "const" ->
           IF b.n < 0 \/ b.n > 2047 THEN EncFault("constindex")
           ELSE Enc(WordOr(Place(b.n, 11, 21), opBinArgBConst))
      [] b.kind = "stack" ->
           IF b.n < -512 \/ b.n > 511 THEN EncFault("stackrange")
           ELSE Enc(WordOr(Place(b.n, 10, 21), opBinArgBStack))

mkBinaryInstr(op, out, a, b) ==
    EncOr(EncOr(EncOr(Enc(Place(op, 5, 1)), mkBinaryOut(out)), mkBinaryArgA(a)),
          mkBinaryArgB(b))

mkTestArg(arg, off, constFlag, stackFlag) ==
    CASE arg.kind = "nil" -> Enc(0)
      [] arg.kind = "reg" ->
           IF ~InRegs(arg.n) THEN EncFault("register")
           ELSE Enc(Place(arg.n, 6, off))
      [] arg.kind = "const" ->
           IF arg.n < 0 \/ arg.n > 1023 THEN EncFault("constindex")
           ELSE Enc(WordOr(Place(arg.n, 10, off), constFlag))
      [] arg.kind = "stack" ->
           IF arg.n < -256 \/ arg.n > 255 THEN EncFault("stackrange")
           ELSE Enc(WordOr(Place(arg.n, 9, off), stackFlag))

mkTestInstr(oper, want, a, b) ==
    EncOr(EncOr(Enc(WordOr(WordOr(Place(OpTest, 5, 1), Place(oper, 3, 6)),
                           IF want THEN opCmpTestBit ELSE 0)),
                mkTestArg(a, 11, opCmpArgAConst, opCmpArgAStack)),
          mkTestArg(b, 22, opCmpArgBConst, opCmpArgBStack))

mkPushPop(op, oprange, arg) ==
    IF op # OpPush /\ op # OpPop THEN EncFault("notpushpop")
    ELSE IF oprange < 1 \/ oprange > 64 THEN EncFault("range")
    ELSE EncOr(Enc(WordOr((op * 2) % 64, Place(oprange - 1, 6, 6))),
           CASE arg.kind = "reg" ->
                  IF arg.n < 0 \/ arg.n + oprange > registerCount
                  THEN EncFault("register")
                  ELSE Enc(Place(arg.n, 6, 14))
             [] arg.kind = "stack" ->
                  IF arg.n < -131072 \/ arg.n > 131071 THEN EncFault("stackrange")
                  ELSE Enc(WordOr(Place(arg.n, 18, 14), opPushPopStack))
             [] arg.kind = "const" ->
                  IF arg.n < 0 \/ arg.n > 262143 THEN EncFault("constindex")
                  ELSE Enc(WordOr(Place(arg.n, 18, 14), opPushConst))
             [] OTHER -> EncFault("indextype"))

(***************************************************************************)
(* The encoders built from the field helpers: each operand goes through    *)
(* registerOp, or through canStore / canStoreUnsigned and then             *)
(* signedBits32 / unsignedBits32, with the offsets and lengths of          *)
(* instr.go.  mkBinaryInstrFields is the mkBinaryInstr of this form.       *)
(***************************************************************************)
opBinOutOff == 7
opBinOutLen == 6
opBinArgAOff == 14
opBinArgALen == 6
opBinArgBOff == 21
opBinArgBLen == 11
opBinArgBStackLen == 10

opcodeBits(op) == Place(op, 5, 1)

registerOp(r, pos) ==
    IF r < 0 \/ r > registerCount THEN EncFault("register")
    ELSE Enc(Place(r, 6, pos))

signedBits32(i, pos, length) == Place(i, length, pos)
unsignedBits32(i, pos, length) == Place(i, length, pos)

canStore(i, bits) == i >= -Pow2(bits - 1) /\ i <= Pow2(bits - 1) - 1

\* uint64(i) of a negative i is above every field
canStoreUnsigned(i, bits) == i >= 0 /\ i <= Pow2(bits) - 1

mkBinaryOutFields(out) ==
    CASE out.kind = "reg" -> registerOp(out.n, opBinOutOff)
      [] out.kind = "stack" ->
           IF ~canStore(out.n, opBinOutOff) THEN EncFault("register")
           ELSE Enc(WordOr(signedBits32(out.n, opBinOutOff, opBinOutLen),
                           opBinOutStack))
      [] OTHER -> EncFault("indextype")

mkBinaryArgAFields(a) ==
    CASE a.kind = "reg" -> registerOp(a.n, opBinArgAOff)
      [] a.kind = "stack" ->
           IF ~canStore(a.n, opBinArgALen) THEN EncFault("register")
           ELSE Enc(WordOr(signedBits32(a.n, opBinArgAOff, opBinArgALen),
                           opBinArgAStack))
      [] OTHER -> EncFault("indextype")

mkBinaryArgBFields(b) ==
    CASE b.kind = "reg" -> registerOp(b.n, opBinArgBOff)
      [] b.kind = "const" ->
           IF ~canStoreUnsigned(b.n, opBinArgBLen) THEN EncFault("constindex")
           ELSE Enc(WordOr(unsignedBits32(b.n, opBinArgBOff, opBinArgBLen),
                           opBinArgBConst))
      [] b.kind = "stack" ->
           IF ~canStore(b.n, opBinArgBLen) THEN EncFault("register")
           ELSE Enc(WordOr(signedBits32(b.n, opBinArgBOff, opBinArgBStackLen),
                           opBinArgBStack))
      [] OTHER -> EncFault("indextype")

mkBinaryInstrFields(op, out, a, b) ==
    EncOr(EncOr(EncOr(Enc(opcodeBits(op)), mkBinaryOutFields(out)),
                mkBinaryArgAFields(a)),
          mkBinaryArgBFields(b))

(***************************************************************************)
(* Comparators (instr.go).  A comparator looks for a capability of its     *)
(* left operand: a "Cmp" value has LessThan and EqualTo (on the payloads   *)
(* of two "Cmp" values) and no LessEqual, so lessEqual takes its fallback; *)
(* no other kind has a capability.                                         *)
(***************************************************************************)
\* an Index passed where a Value is expected: the handle, boxed
IndexValue(ix) == [k |-> "Index", v |-> ix.n]

LessThan(l, r) == r.k = "Cmp" /\ l.v < r.v
EqualTo(l, r) == r.k = "Cmp" /\ l.v = r.v

lessThan(l, r) == IF l.k = "Cmp" THEN LessThan(l, r) ELSE FALSE
lessEqual(l, r) == IF l.k = "Cmp" THEN LessThan(l, r) \/ EqualTo(l, r) ELSE FALSE
equalTo(l, r) == IF l.k = "Cmp" THEN EqualTo(l, r) ELSE FALSE

\* compareOp.comparator: the result the comparison is held against
comparatorResult(c) == c \in {cmpLess, cmpLequal, cmpEqual}

\* compareOp.comparator: the function, applied; "bad" is its panic
\* mutation: the comparator that answers false for includes and excludes
comparatorFnSilent(c, l, r) ==
    CASE c = cmpLess -> IF lessThan(l, r) THEN "true" ELSE "false"
      [] c = cmpLequal -> IF lessEqual(l, r) THEN "true" ELSE "false"
      [] c = cmpEqual -> IF equalTo(l, r) THEN "true" ELSE "false"
      [] c = cmpNotEqual -> IF equalTo(l, r) THEN "true" ELSE "false"
      [] c = cmpGreater -> IF lessEqual(l, r) THEN "true" ELSE "false"
      [] c = cmpGequal -> IF lessThan(l, r) THEN "true" ELSE "false"
      [] OTHER -> "false"

comparatorFn(c, l, r) ==
    CASE c = cmpLess -> IF lessThan(l, r) THEN "true" ELSE "false"
      [] c = cmpLequal -> IF lessEqual(l, r) THEN "true" ELSE "false"
      [] c = cmpEqual -> IF equalTo(l, r) THEN "true" ELSE "false"
      [] c = cmpNotEqual -> IF equalTo(l, r) THEN "true" ELSE "false"
      [] c = cmpGreater -> IF lessEqual(l, r) THEN "true" ELSE "false"
      [] c = cmpGequal -> IF lessThan(l, r) THEN "true" ELSE "false"
      [] OTHER -> "bad"

(***************************************************************************)
(* Thread.step(skip): the next instruction, its size in words and whether  *)
(* there is one; with skip the PC moves past it.  The method is called by  *)
(* the Test handler and is not among the sources; it is modelled after the *)
(* main loop's fetch as the specification describes it (section 4.4):      *)
(* the word at PC, merged with the following word when its ExtBit is set   *)
(* and a following word exists.                                            *)
(***************************************************************************)
step(t, skip) ==
    IF t.pc >= Len(t.code)
    THEN [sz |-> 0, ji |-> Instr(0, 0), ok |-> FALSE, t |-> t]
    ELSE LET lo == t.code[t.pc + 1]
             ext == isExt(lo) /\ t.pc + 1 < Len(t.code)
             sz == IF ext THEN 2 ELSE 1
         IN [sz |-> sz,
             ji |-> Instr(lo, IF ext THEN t.code[t.pc + 2] ELSE 0),
             ok |-> TRUE,
             t |-> IF skip THEN [t EXCEPT !.pc = t.pc + sz] ELSE t]

(***************************************************************************)
(* 64-bit integers.  The payload of an Int or a Uint handed to the         *)
(* arithmetic below is the eight bytes of the int64 / uint64, byte 1 the   *)
(* lowest; Int and Uint of the same bytes differ in the tag alone, as      *)
(* Int(x) and Uint(x) do.  A Float payload is a fraction [n, d], d > 0.    *)
(***************************************************************************)
Bytes == 1..8

\* the word of the bytes F(1) .. F(8)
Word8(F(_)) == <<F(1), F(2), F(3), F(4), F(5), F(6), F(7), F(8)>>

\* the int64 of a model integer
W64(n) ==
    Word8(LAMBDA k : IF k <= 4 THEN (n \div Pow2(8 * (k - 1))) % 256
                     ELSE IF n < 0 THEN 255 ELSE 0)

Zero64 == W64(0)
One64 == W64(1)
MinInt64 == <<0, 0, 0, 0, 0, 0, 0, 128>>
MaxInt64 == <<255, 255, 255, 255, 255, 255, 255, 127>>

IsNeg64(a) == a[8] >= 128

\* bit i of a, i in 0..63
BitOf(a, i) == (a[(i \div 8) + 1] \div Pow2(i % 8)) % 2

\* the carry into byte k of a + b
RECURSIVE CarryInto(_, _, _)
CarryInto(a, b, k) ==
    IF k = 1 THEN 0
    ELSE (a[k - 1] + b[k - 1] + CarryInto(a, b, k - 1)) \div 256

\* +, unary -, - and * of int64 and uint64: the low 64 bits
Add64(a, b) == Word8(LAMBDA k : (a[k] + b[k] + CarryInto(a, b, k)) % 256)
Not64(a) == Word8(LAMBDA k : 255 - a[k])
Neg64(a) == Add64(Not64(a), One64)
Sub64(a, b) == Add64(a, Neg64(b))

\* the byte products that land on byte k, from a[i] on
RECURSIVE Column(_, _, _, _)
Column(a, b, k, i) ==
    IF i > k THEN 0 ELSE a[i] * b[k + 1 - i] + Column(a, b, k, i + 1)

RECURSIVE MulCarry(_, _, _)
MulCarry(a, b, k) ==
    IF k = 1 THEN 0
    ELSE (Column(a, b, k - 1, 1) + MulCarry(a, b, k - 1)) \div 256

Mul64(a, b) ==
    Word8(LAMBDA k : (Column(a, b, k, 1) + MulCarry(a, b, k)) % 256)

\* a << c and a >> c for a count c >= 0; a count of 64 or more shifts every
\* bit out.  fill is the byte that enters from the top: 0 for uint64, the
\* sign byte for int64.
Shl64(a, c) ==
    IF c >= 64 THEN Zero64
    ELSE LET q == c \div 8
             r == c % 8
         IN Word8(LAMBDA k :
                IF k <= q THEN 0
                ELSE ((a[k - q] * Pow2(r)) % 256)
                     + (IF k - q >= 2 THEN a[k - q - 1] \div Pow2(8 - r)
                        ELSE 0))

Shr64(a, c, fill) ==
    IF c >= 64 THEN Word8(LAMBDA k : fill)
    ELSE LET q == c \div 8
             r == c % 8
             At(j) == IF j <= 8 THEN a[j] ELSE fill
         IN Word8(LAMBDA k :
                (At(k + q) \div Pow2(r))
                + ((At(k + q + 1) * Pow2(8 - r)) % 256))

SignFill(a) == IF IsNeg64(a) THEN 255 ELSE 0

RECURSIVE LessFrom(_, _, _)
LessFrom(a, b, k) ==
    IF k < 1 THEN FALSE
    ELSE IF a[k] # b[k] THEN a[k] < b[k]
    ELSE LessFrom(a, b, k - 1)

\* a < b as uint64
ULess64(a, b) == LessFrom(a, b, 8)

\* uint64 / and %, bit by bit from the top.  A step takes bit s.i of a into
\* the remainder and sets the bit of the quotient when b fits.
DivBit(a, b, s) ==
    LET r1 == [Shl64(s.r, 1) EXCEPT ![1] = @ + BitOf(a, s.i)]
        ge == IsNeg64(s.r) \/ ~ULess64(r1, b)
    IN [q |-> IF ge THEN [s.q EXCEPT ![(s.i \div 8) + 1] = @ + Pow2(s.i % 8)]
              ELSE s.q,
        r |-> IF ge THEN Sub64(r1, b) ELSE r1,
        i |-> s.i - 1]

\* the eight steps of one byte of a
DivByte(a, b, s) ==
    DivBit(a, b, DivBit(a, b, DivBit(a, b, DivBit(a, b,
    DivBit(a, b, DivBit(a, b, DivBit(a, b, DivBit(a, b, s))))))))

RECURSIVE DivStep(_, _, _)
DivStep(a, b, s) ==
    IF s.i < 0 THEN s ELSE DivStep(a, b, DivByte(a, b, s))

DivFrom == [q |-> Zero64, r |-> Zero64, i |-> 63]

UDiv64(a, b) == DivStep(a, b, DivFrom).q
URem64(a, b) == DivStep(a, b, DivFrom).r

Abs64(a) == IF IsNeg64(a) THEN Neg64(a) ELSE a

\* int64 / and %: the quotient truncated toward zero, the remainder with
\* the sign of the dividend
SDiv64(a, b) ==
    LET q == UDiv64(Abs64(a), Abs64(b)) IN
    IF IsNeg64(a) # IsNeg64(b) THEN Neg64(q) ELSE q

SRem64(a, b) ==
    LET r == URem64(Abs64(a), Abs64(b)) IN
    IF IsNeg64(a) THEN Neg64(r) ELSE r

\* the model integer of an int64 within -2^31 .. 2^31 - 1
IntOf(a) ==
    IF IsNeg64(a)
    THEN ((a[1] + 256 * a[2] + 65536 * a[3] + 16777216 * (a[4] - 128))
          - 1073741824) - 1073741824
    ELSE a[1] + 256 * a[2] + 65536 * a[3] + 16777216 * a[4]

\* uint(c) as a shift count: every count of 64 or more shifts alike
ShiftCount(a) ==
    IF a[1] < 64 /\ \A k \in 2..8 : a[k] = 0 THEN a[1] ELSE 64

(***************************************************************************)
(* The value tower: Float, Int and Uint with their conversions and the     *)
(* operations of Arith and of the shifters.  A panic of the Go runtime is  *)
(* the value Panicked.                                                     *)
(***************************************************************************)
Panicked == [k |-> "panic", v |-> Zero64]

\* mutation: toint that rounds a Float to the nearest integer
tointNearest(v) ==
    IF v.k = "Float"
    THEN IntV(W64(TruncFloat([n |-> 2 * v.v.n + (IF v.v.n >= 0 THEN v.v.d
                                                  ELSE -v.v.d),
                              d |-> 2 * v.v.d])))
    ELSE IntV(v.v)

\* toint of a Float, an Int or a Uint
tointOf(v) ==
    IF v.k = "Float" THEN IntV(W64(TruncFloat(v.v))) ELSE IntV(v.v)

\* math.Pow(b, e) for an integer b and e < 0, as a fraction; d = 0 is Inf
RECURSIVE PowInt(_, _)
PowInt(b, e) == IF e = 0 THEN 1 ELSE b * PowInt(b, e - 1)

FloatPow(b, e) ==
    LET p == PowInt(IntOf(b), -IntOf(e)) IN
    IF p = 0 THEN FloatQ(1, 0)
    ELSE IF p < 0 THEN FloatQ(-1, -p) ELSE FloatQ(1, p)

IntArithShift(lhs, bits) ==
    LET c == tointOf(bits).v IN
    IF IsNeg64(c) THEN IntV(Shl64(lhs.v, ShiftCount(Neg64(c))))
    ELSE IF c # Zero64 THEN IntV(Shr64(lhs.v, ShiftCount(c), SignFill(lhs.v)))
    ELSE lhs

IntBitShift(lhs, bits) ==
    LET c == tointOf(bits).v IN
    IF IsNeg64(c) THEN IntV(Shl64(lhs.v, ShiftCount(Neg64(c))))
    ELSE IF c # Zero64 THEN IntV(Shr64(lhs.v, ShiftCount(c), 0))
    ELSE lhs

\* mutation: the arithmetic shift of a Uint that fills with zeros
UintArithShiftLogical(lhs, bits) ==
    LET c == tointOf(bits).v IN
    IF IsNeg64(c) THEN UintV(Shl64(lhs.v, ShiftCount(Neg64(c))))
    ELSE IF c # Zero64 THEN UintV(Shr64(lhs.v, ShiftCount(c), 0))
    ELSE lhs

UintArithShift(lhs, bits) ==
    LET c == tointOf(bits).v IN
    IF IsNeg64(c) THEN UintV(Shl64(lhs.v, ShiftCount(Neg64(c))))
    ELSE IF c # Zero64 THEN UintV(Shr64(lhs.v, ShiftCount(c), SignFill(lhs.v)))
    ELSE lhs

UintBitShift(lhs, bits) ==
    LET c == tointOf(bits).v IN
    IF IsNeg64(c) THEN UintV(Shl64(lhs.v, ShiftCount(Neg64(c))))
    ELSE IF c # Zero64 THEN UintV(Shr64(lhs.v, ShiftCount(c), 0))
    ELSE lhs

\* the operations below take an Int or a Uint on the right
IntAdd(lhs, rhs) == IntV(Add64(lhs.v, rhs.v))
IntSub(lhs, rhs) == IntV(Sub64(lhs.v, rhs.v))
IntMul(lhs, rhs) == IntV(Mul64(lhs.v, rhs.v))

IntDiv(lhs, rhs) ==
    IF rhs.v = Zero64 THEN Panicked ELSE IntV(SDiv64(lhs.v, rhs.v))

IntMod(lhs, rhs) ==
    IF rhs.v = Zero64 THEN Panicked ELSE IntV(SRem64(lhs.v, rhs.v))

\* the loop of Pow: lhs = lhs * q, once for every i below rhs (rhs within
\* the model integers)
\* for q, i := lhs, 0; i < rhs; i++ { lhs = lhs * q }, from s = [lhs, i]
RECURSIVE PowLoop(_, _, _)
PowLoop(s, q, rhs) ==
    IF s.i >= rhs THEN s.lhs
    ELSE PowLoop([lhs |-> Mul64(s.lhs, q), i |-> s.i + 1], q, rhs)

IntPow(lhs, rhs) ==
    IF rhs.v = Zero64 THEN UintV(One64)
    ELSE IF rhs.k = "Int" /\ IsNeg64(rhs.v) THEN FloatPow(lhs.v, rhs.v)
    ELSE IntV(PowLoop([lhs |-> lhs.v, i |-> 0], lhs.v, IntOf(rhs.v)))

UintAdd(lhs, rhs) == UintV(Add64(lhs.v, rhs.v))
UintSub(lhs, rhs) == UintV(Sub64(lhs.v, rhs.v))

UintMul(lhs, rhs) ==
    IF rhs.k = "Uint" THEN IntV(Mul64(lhs.v, rhs.v))
    ELSE UintV(Mul64(lhs.v, rhs.v))

UintDiv(lhs, rhs) ==
    IF rhs.v = Zero64 THEN Panicked
    ELSE IF rhs.k = "Uint" THEN IntV(UDiv64(lhs.v, rhs.v))
    ELSE UintV(SDiv64(lhs.v, rhs.v))

UintMod(lhs, rhs) ==
    IF rhs.v = Zero64 THEN Panicked
    ELSE IF rhs.k = "Uint" THEN IntV(URem64(lhs.v, rhs.v))
    ELSE UintV(SRem64(lhs.v, rhs.v))

UintPow(lhs, rhs) ==
    IF rhs.v = Zero64 THEN UintV(One64)
    ELSE IF rhs.k = "Int" /\ IsNeg64(rhs.v) THEN FloatPow(lhs.v, rhs.v)
    ELSE UintV(PowLoop([lhs |-> lhs.v, i |-> 0], lhs.v, IntOf(rhs.v)))

\* the method of the left operand that an operation name selects
Arith(fn, lhs, rhs) ==
    IF lhs.k = "Int"
    THEN CASE fn = "Add" -> IntAdd(lhs, rhs)
           [] fn = "Sub" -> IntSub(lhs, rhs)
           [] fn = "Mul" -> IntMul(lhs, rhs)
           [] fn = "Div" -> IntDiv(lhs, rhs)
           [] fn = "Mod" -> IntMod(lhs, rhs)
           [] fn = "Pow" -> IntPow(lhs, rhs)
           [] fn = "ArithShift" -> IntArithShift(lhs, rhs)
           [] fn = "BitShift" -> IntBitShift(lhs, rhs)
    ELSE CASE fn = "Add" -> UintAdd(lhs, rhs)
           [] fn = "Sub" -> UintSub(lhs, rhs)
           [] fn = "Mul" -> UintMul(lhs, rhs)
           [] fn = "Div" -> UintDiv(lhs, rhs)
           [] fn = "Mod" -> UintMod(lhs, rhs)
           [] fn = "Pow" -> UintPow(lhs, rhs)
           [] fn = "ArithShift" -> UintArithShift(lhs, rhs)
           [] fn = "BitShift" -> UintBitShift(lhs, rhs)

\* float64 arithmetic, on fractions and without rounding
RECURSIVE Gcd(_, _)
Gcd(a, b) == IF b = 0 THEN a ELSE Gcd(b, a % b)

\* the fraction n / d in lowest terms with d > 0; x / 0 is an infinity by
\* the sign of x, or the NaN 0 / 0
Frac(n, d) ==
    IF d = 0 THEN [n |-> IF n > 0 THEN 1 ELSE IF n < 0 THEN -1 ELSE 0, d |-> 0]
    ELSE LET g == Gcd(IF n < 0 THEN -n ELSE n, IF d < 0 THEN -d ELSE d)
             sg == IF d < 0 THEN -1 ELSE 1
         IN [n |-> sg * (n \div g), d |-> sg * (d \div g)]

\* tofloat of a Float, an Int or a Uint (integers within the model integers)
tofloat(v) == IF v.k = "Float" THEN v.v ELSE [n |-> IntOf(v.v), d |-> 1]

\* Float.Add, Sub, Mul, Div and Mod, and the Float cases of Int and Uint.
\* Pow with a Float operand is math.Pow, which has no fraction for a result
\* in general; it is not modelled and no code of the model applies it.
FloatArith(fn, l, r) ==
    [k |-> "Float",
     v |-> CASE fn = "Add" -> Frac(l.n * r.d + r.n * l.d, l.d * r.d)
             [] fn = "Sub" -> Frac(l.n * r.d - r.n * l.d, l.d * r.d)
             [] fn = "Mul" -> Frac(l.n * r.n, l.d * r.d)
             [] fn = "Div" -> Frac(l.n * r.d, l.d * r.n)
             [] fn = "Mod" ->
                  IF r.n = 0 THEN Frac(0, 0)
                  ELSE LET q == TruncFloat(Frac(l.n * r.d, l.d * r.n)) IN
                       Frac(l.n * r.d - q * r.n * l.d, l.d * r.d)]

\* lhs.Add(rhs) and the like, for lhs and rhs out of toarith
Method(fn, lhs, rhs) ==
    IF lhs.k = "Float" \/ rhs.k = "Float"
    THEN FloatArith(fn, tofloat(lhs), tofloat(rhs))
    ELSE Arith(fn, lhs, rhs)

\* tobitwise of a Float, an Int or a Uint: a Float has no bitwise methods
\* and is taken through its Int64
tobitwise(v) ==
    IF v.k = "Float" THEN IntV(W64(TruncFloat(v.v))) ELSE v

\* arithShift and bitwiseShift: the method of an Int or a Uint, and of the
\* tobitwise of anything else
arithShift(v, bits) ==
    LET vx == IF v.k \in {"Int", "Uint"} THEN v ELSE tobitwise(v) IN
    IF vx.k = "Uint" THEN UintArithShift(vx, bits)
    ELSE IntArithShift(vx, bits)

bitwiseShift(v, bits) ==
    LET vx == IF v.k \in {"Int", "Uint"} THEN v ELSE tobitwise(v) IN
    IF vx.k = "Uint" THEN UintBitShift(vx, bits)
    ELSE IntBitShift(vx, bits)

\* the rounding modes
RoundTruncate == 0
RoundNearest == 1
RoundFloor == 2
RoundCeil == 3

Mode(m) == [k |-> "mode", v |-> m]

\* math.Floor of a fraction
FloorFloat(f) ==
    IF f.n >= 0 \/ (-f.n) % f.d = 0 THEN TruncFloat(f) ELSE TruncFloat(f) - 1

\* Float.Round: a float64 of the rounded value
FloatRound(f, md) ==
    CASE md = RoundTruncate -> GoFloat(TruncFloat(f), 1)
      [] md = RoundNearest ->
           GoFloat(TruncFloat([n |-> 2 * f.n + (IF f.n >= 0 THEN f.d
                                                ELSE -f.d),
                               d |-> 2 * f.d]), 1)
      [] md = RoundFloor -> GoFloat(FloorFloat(f), 1)
      [] md = RoundCeil -> GoFloat(-FloorFloat([n |-> -f.n, d |-> f.d]), 1)

\* mutation: round that looks at the mode only when it has a Float to round
roundTypeFirst(v, md) ==
    IF v.k \in {"Uint", "Int"} THEN v
    ELSE IF md > RoundCeil THEN Panicked
    ELSE FloatRound(v.v, md)

\* round(v, mode) of a Uint, an Int, a Float or a float64
round(v, md) ==
    IF md > RoundCeil THEN Panicked
    ELSE IF v.k \in {"Uint", "Int"} THEN v
    ELSE FloatRound(v.v, md)

\* what an operation name applies: a method of the left operand, a shifter
\* or round, whose right operand is the mode
Operate(fn, l, r) ==
    CASE fn = "ArithShift" -> arithShift(l, r)
      [] fn = "BitShift" -> bitwiseShift(l, r)
      [] fn = "Round" -> round(l, r.v)
      [] OTHER -> Arith(fn, l, r)

\* Neg of a Float, an Int or a Uint
Neg(v) ==
    IF v.k = "Float" THEN FloatQ(-v.v.n, v.v.d)
    ELSE [k |-> v.k, v |-> Neg64(v.v)]

(***************************************************************************)
(* Opcode handlers (opcode.go).                                            *)
(***************************************************************************)
\* vm.pc += off, or vm.pc += toint(ix.load(vm)), on top of base
jumpBy(t, base, j) ==
    IF j.ix = NilIndex THEN [t EXCEPT !.pc = t.pc + base + j.off]
    ELSE LET l == load(t, j.ix) IN
         IF l.fault # "none" THEN Raise(t, l.fault)
         ELSE IF ~IsArith(l.v) THEN Raise(t, "type")
         ELSE [t EXCEPT !.pc = t.pc + base + toint(l.v)]

\* the operands handed to the comparator
testOperands(t, i) == <<IndexValue(cmpArgA(i)), IndexValue(cmpArgB(i))>>

\* "pass", "fail" or "bad": whether the test holds against Want
testOutcome(t, i) ==
    LET args == testOperands(t, i)
        r == comparatorFn(cmpOp(i), args[1], args[2])
    IN IF r = "bad" THEN "bad"
       ELSE IF ((r = "true") = comparatorResult(cmpOp(i))) # cmpWant(i)
       THEN "fail" ELSE "pass"

\* mutation: the fused jump that forgets the size of the jump instruction
opTestNoSize(t, i) ==
    LET o == testOutcome(t, i) IN
    IF o = "bad" THEN Raise(t, "badcmp")
    ELSE IF o = "fail" THEN step(t, TRUE).t
    ELSE LET s == step(t, FALSE) IN
         IF s.ok /\ Opcode(s.ji) = OpJump
         THEN jumpBy(t, 0, jumpOffset(s.ji))
         ELSE t

opTest(t, i) ==
    LET o == testOutcome(t, i) IN
    IF o = "bad" THEN Raise(t, "badcmp")
    ELSE IF o = "fail" THEN step(t, TRUE).t
    ELSE LET s == step(t, FALSE) IN
         IF s.ok /\ Opcode(s.ji) = OpJump
         THEN jumpBy(t, s.sz, jumpOffset(s.ji))
         ELSE t

opJump(t, i) == jumpBy(t, 0, jumpOffset(i))

\* one round of a push loop: vm.Push(i.load(vm))
pushFrom(t, ix) ==
    LET l == load(t, ix) IN
    IF l.fault # "none" THEN Raise(t, l.fault) ELSE Push(t, l.v)

\* for i := src; i != top; i += incr, with rounds left to go
RECURSIVE pushLoop(_, _, _, _, _)
pushLoop(t, kind, i, incr, rounds) ==
    IF rounds = 0 \/ t.fault # "none" THEN t
    ELSE pushLoop(pushFrom(t, [kind |-> kind, n |-> i]), kind, i + incr, incr,
                  rounds - 1)

\* mutation: the push of a register range from its highest register down
opPushDescending(t, i) ==
    LET n == pushPopRange(i)
        src == pushArg(i)
    IN IF src.kind = "reg"
       THEN pushLoop(t, "reg", src.n + (n - 1), -1, n)
       ELSE pushLoop(t, src.kind, src.n,
                     IF src.kind = "stack" /\ src.n < 0 THEN -1 ELSE 1, n)

opPush(t, i) ==
    LET n == pushPopRange(i)
        src == pushArg(i)
    IN pushLoop(t, src.kind, src.n,
                IF src.kind = "stack" /\ src.n < 0 THEN -1 ELSE 1, n)

\* one round of a pop loop: i.store(vm, vm.Pop()); the pop comes first
popInto(t, ix) ==
    Then(Pop(t), LAMBDA u : store(u, ix, PopValue(t)))

RECURSIVE popLoop(_, _, _, _, _)
popLoop(t, kind, i, incr, rounds) ==
    IF rounds = 0 \/ t.fault # "none" THEN t
    ELSE popLoop(popInto(t, [kind |-> kind, n |-> i]), kind, i + incr, incr,
                 rounds - 1)

\* mutation: the pop into registers that fills them from the lowest up
opPopAscending(t, i) ==
    LET n == pushPopRange(i)
        dst == popArg(i)
    IN IF dst.kind = "stack" /\ dst.n >= 0
       THEN popLoop(t, "stack", dst.n - (n - 1), 1, n)
       ELSE popLoop(t, dst.kind, dst.n, 1, n)

opPop(t, i) ==
    LET n == pushPopRange(i)
        dst == popArg(i)
    IN IF dst.kind = "stack" /\ dst.n >= 0
       THEN popLoop(t, "stack", dst.n - (n - 1), 1, n)
       ELSE popLoop(t, dst.kind, dst.n + (n - 1), -1, n)

opReserve(t, i) ==
    LET l == load(t, argB(i)) IN
    IF l.fault # "none" THEN Raise(t, l.fault)
    ELSE IF ~IsArith(l.v) THEN Raise(t, "type")
    ELSE growStack(t, toint(l.v))

opLoad(t, i) ==
    LET l == load(t, loadSrc(i)) IN
    IF l.fault # "none" THEN Raise(t, l.fault)
    ELSE store(t, loadDst(i), l.v)

\* toarith of a value that IsArith, as a value of the tower: an Int or a
\* Uint of eight bytes, or a Float
toarith(v) ==
    CASE v.k \in {"Int", "int"} -> IntV(W64(v.v))
      [] v.k = "Uint" -> UintV(W64(v.v))
      [] v.k \in {"Float", "float64"} -> FloatQ(v.v.n, v.v.d)

\* a value of the tower as a value of the thread (integers within the
\* model integers)
Stored(r) ==
    IF r.k \in {"Int", "Uint"} THEN [k |-> r.k, v |-> IntOf(r.v)] ELSE r

\* Add, Sub, Div, Mul, Pow and Mod: out.store(vm, lhs.Add(rhs)) with lhs
\* and rhs loaded and converted in this order; an integer division by zero
\* is a runtime panic
\* mutation: the handler that stores nil before it computes
opBinaryClearsOut(t, i, fn) ==
    LET a == load(t, argA(i)) IN
    IF a.fault # "none" THEN Raise(t, a.fault)
    ELSE IF ~IsArith(a.v) THEN Raise(t, "type")
    ELSE LET b == load(t, argB(i)) IN
         IF b.fault # "none" THEN Raise(t, b.fault)
         ELSE IF ~IsArith(b.v) THEN Raise(t, "type")
         ELSE LET r == Method(fn, toarith(a.v), toarith(b.v)) IN
              IF r = Panicked THEN Raise(store(t, regOut(i), Nil), "runtime")
              ELSE store(t, regOut(i), Stored(r))

opBinary(t, i, fn) ==
    LET a == load(t, argA(i)) IN
    IF a.fault # "none" THEN Raise(t, a.fault)
    ELSE IF ~IsArith(a.v) THEN Raise(t, "type")
    ELSE LET b == load(t, argB(i)) IN
         IF b.fault # "none" THEN Raise(t, b.fault)
         ELSE IF ~IsArith(b.v) THEN Raise(t, "type")
         ELSE LET r == Method(fn, toarith(a.v), toarith(b.v)) IN
              IF r = Panicked THEN Raise(t, "runtime")
              ELSE store(t, regOut(i), Stored(r))

\* Neg: out.store(vm, recv.Neg())
opNeg(t, i) ==
    LET a == load(t, argA(i)) IN
    IF a.fault # "none" THEN Raise(t, a.fault)
    ELSE IF ~IsArith(a.v) THEN Raise(t, "type")
    ELSE store(t, regOut(i), Stored(Neg(toarith(a.v))))

\* Arithshift and Bitshift: both operands are loaded, then the shifter
\* converts them
opShift(t, i, fn) ==
    LET a == load(t, argA(i)) IN
    IF a.fault # "none" THEN Raise(t, a.fault)
    ELSE LET b == load(t, argB(i)) IN
         IF b.fault # "none" THEN Raise(t, b.fault)
         ELSE IF ~IsArith(a.v) \/ ~IsArith(b.v) THEN Raise(t, "type")
         ELSE store(t, regOut(i),
                    Stored(IF fn = "ArithShift"
                           THEN arithShift(toarith(a.v), toarith(b.v))
                           ELSE bitwiseShift(toarith(a.v), toarith(b.v))))

\* Round: the mode is argAU and the value is the load of argA
opRound(t, i) ==
    LET a == load(t, argA(i)) IN
    IF a.fault # "none" THEN Raise(t, a.fault)
    ELSE IF argAU(i) > RoundCeil THEN Raise(t, "roundingmode")
    ELSE IF ~IsArith(a.v) THEN Raise(t, "type")
    ELSE store(t, regOut(i), Stored(round(toarith(a.v), argAU(i))))

\* the method of the left operand each arithmetic opcode calls, and the
\* shifter each shift opcode calls
BinaryMethods ==
    (OpAdd :> "Add") @@ (OpSub :> "Sub") @@ (OpDiv :> "Div")
        @@ (OpMul :> "Mul") @@ (OpPow :> "Pow") @@ (OpMod :> "Mod")

Shifters == (OpArithshift :> "ArithShift") @@ (OpBitshift :> "BitShift")

\* instr.execer()(instr, th): a slot past the table is a runtime panic,
\* Call .. Join panic as unimplemented.  The handlers of Not, Or, And and
\* Xor are not modelled; no code of the model holds their opcodes.
exec(t, i) ==
    LET op == execerSlot(i) IN
    CASE op \in DOMAIN BinaryMethods -> opBinary(t, i, BinaryMethods[op])
      [] op = OpNeg -> opNeg(t, i)
      [] op \in DOMAIN Shifters -> opShift(t, i, Shifters[op])
      [] op = OpRound -> opRound(t, i)
      [] op = OpTest -> opTest(t, i)
      [] op = OpJump -> opJump(t, i)
      [] op = OpPush -> opPush(t, i)
      [] op = OpPop -> opPop(t, i)
      [] op = OpReserve -> opReserve(t, i)
      [] op = OpLoad -> opLoad(t, i)
      [] op >= OpCall /\ op < opCount -> Raise(t, "unimplemented")
      [] op >= opCount -> Raise(t, "runtime")

\* the fetch of Run: the instruction dispatched from a PC inside the code
fetch(t) ==
    LET lo == t.code[t.pc + 1] IN
    IF isExt(lo) /\ t.pc + 1 < Len(t.code)
    THEN [i |-> Instr(lo, t.code[t.pc + 1]), sz |-> 2]
    ELSE [i |-> Instr(lo, 0), sz |-> 1]

\* one round of the loop of Run, entered with pc < len(code); indexing the
\* code at a negative PC is a runtime panic, after the PC was incremented
\* mutation: the round that dispatches without moving PC
runStepInPlace(t) ==
    IF t.pc < 0 THEN Raise([t EXCEPT !.pc = t.pc + 1], "runtime")
    ELSE exec(t, fetch(t).i)

runStep(t) ==
    IF t.pc < 0 THEN Raise([t EXCEPT !.pc = t.pc + 1], "runtime")
    ELSE exec([t EXCEPT !.pc = t.pc + fetch(t).sz], fetch(t).i)

(***************************************************************************)
(* The functions the embedder installs (funcData: pc, code, consts).       *)
(***************************************************************************)
R(n) == RegisterIndex(n)
S(n) == StackIndex(n)
K(n) == constIndex(n)

\* comparisons of two constants with both Want values, each followed by a
\* jump or by a load; the last jump leaves the code
codeA ==
    << mkTestInstr(cmpLess, TRUE, K(0), K(1)).w,
       mkJumpInstr(1, NilIndex).w,
       mkTestInstr(cmpLess, FALSE, K(0), K(1)).w,
       mkJumpInstr(1, NilIndex).w,
       mkPushPop(OpPush, 1, R(3)).w,
       mkTestInstr(cmpEqual, FALSE, K(0), K(0)).w,
       mkLoadInstr(R(3), K(0)).w,
       mkJumpInstr(1, NilIndex).w >>

\* a write to ESP, reserve, ranged push and pop, an extended load, a
\* write to PC, a ranged pop into registers and a test with a comparison
\* that has no implementation
codeB ==
    << mkLoadInstr(R(2), K(0)).w,
       mkBinaryInstr(OpReserve, NilIndex, NilIndex, K(1)).w,
       mkPushPop(OpPush, 2, S(-1)).w,
       mkPushPop(OpPop, 2, S(0)).w,
       mkXloadInstr(R(5), R(3)).w,
       mkXloadInstr(R(5), R(3)).hi,
       mkLoadInstr(R(0), K(2)).w,
       mkPushPop(OpPop, 2, R(4)).w,
       mkTestInstr(cmpIncludes, TRUE, K(0), K(1)).w >>

fnA == [pc |-> 0, code |-> codeA, consts |-> <<Cmp(1), Cmp(2)>>]
fnB == [pc |-> 0, code |-> codeB, consts |-> <<IntV(3), IntV(1), IntV(7)>>]

Funcs == {fnA, fnB}

\* what the embedder passes
\* the embedder pushes the Int of the position it fills, so that the values
\* on the stack tell their origin
PushValues == {IntV(Len(stack) + 1)}
EbpOffsets == {-2, -1, 0, 1}
Keeps == {-1, 0, 1, 2}

(***************************************************************************)
(* The state machine.  mode is "idle" while the embedder holds the thread  *)
(* and "run" inside Run; fault is the panic of the last operation ("none"  *)
(* when it returned); last names the last operation, its argument and      *)
(* whether the operation before it was a pushFrame that returned;          *)
(* runs counts the entries into Run; err is what RunProtected returned    *)
(* when the last operation was its return, and NotReturned otherwise.      *)
(***************************************************************************)
\* the error values of RunProtected: nil, or the recovered panic wrapped
NotReturned == [returned |-> FALSE, nil |-> TRUE, Value |-> "none"]
NilError == [returned |-> TRUE, nil |-> TRUE, Value |-> "none"]
RuntimePanic(v) == [returned |-> TRUE, nil |-> FALSE, Value |-> v]

\* RunProtected, once Run has returned or unwound with the panic in t.fault
\* mutation: the barrier that drops the recovered panic
RunProtectedDropsPanic(t) == NilError

RunProtected(t) ==
    IF t.fault = "none" THEN NilError ELSE RuntimePanic(t.fault)

NoInstr == Instr(0, 0)

Did(op, arg, i) ==
    [op |-> op, arg |-> arg,
     afterPush |-> last.op = "pushFrame" /\ fault = "none"]

Commit(t, m, l) ==
    /\ pc' = t.pc
    /\ ebp' = t.ebp
    /\ code' = t.code
    /\ consts' = t.consts
    /\ stack' = t.stack
    /\ tail' = t.tail
    /\ frames' = t.frames
    /\ reg' = t.reg
    /\ fault' = t.fault
    /\ mode' = m
    /\ runs' = IF l.op = "Run" THEN runs + 1 ELSE runs
    /\ last' = l
    /\ err' = IF l.op = "return" \/ (l.op = "step" /\ m = "idle")
              THEN RunProtected(t) ELSE NotReturned
    /\ UNCHANGED <<built, calc>>

\* built is the last application of an encoder and calc the last
\* application of an arithmetic operation; the thread has neither
NoBuilt ==
    [fn |-> "none", op |-> 0, n |-> 0, out |-> NilIndex, a |-> NilIndex,
     b |-> NilIndex, done |-> FALSE, res |-> Enc(0)]

NoCalc ==
    [fn |-> "none", l |-> IntV(Zero64), r |-> IntV(Zero64), done |-> FALSE,
     res |-> IntV(Zero64)]

\* NewThread
NewThread ==
    /\ pc = 0
    /\ ebp = 0
    /\ code = <<>>
    /\ consts = <<>>
    /\ stack = <<>>
    /\ tail = Nils(InitCap)
    /\ frames = <<>>
    /\ reg = [i \in specialRegisters..(registerCount - 1) |-> Nil]
    /\ fault = "none"
    /\ mode = "idle"
    /\ runs = 0
    /\ last = [op |-> "NewThread", arg |-> 0, afterPush |-> FALSE]
    /\ err = NotReturned

Init ==
    /\ NewThread
    /\ built = NoBuilt
    /\ calc = NoCalc

CallPush(v) ==
    /\ mode = "idle"
    /\ Len(stack) < MaxStack
    /\ Commit(Push(Th, v), "idle", Did("Push", v, NoInstr))

CallPop ==
    /\ mode = "idle"
    /\ Commit(Pop(Th), "idle", Did("Pop", 0, NoInstr))

CallPushFrame(ebpOffset, fn) ==
    /\ mode = "idle"
    /\ Len(frames) < MaxFrames
    /\ Commit(pushFrame(Th, ebpOffset, fn), "idle",
              Did("pushFrame", ebpOffset, NoInstr))

CallPopFrame(keep) ==
    /\ mode = "idle"
    /\ Commit(popFrame(Th, keep), "idle", Did("popFrame", keep, NoInstr))

CallReplaceFrame(keep, fn) ==
    /\ mode = "idle"
    /\ Commit(replaceFrame(Th, keep, fn), "idle",
              Did("replaceFrame", keep, NoInstr))

\* Run is entered (through RunProtected, which holds the fault back)
RunEnter ==
    /\ mode = "idle"
    /\ runs < MaxRuns
    /\ Commit(Th, "run", Did("Run", 0, NoInstr))

\* one round of the loop; a fault unwinds out of Run
RunStep ==
    /\ mode = "run"
    /\ pc < Len(code)
    /\ LET t == runStep(Th) IN
       Commit(t, IF t.fault = "none" THEN "run" ELSE "idle",
              Did("step", 0, IF pc < 0 THEN NoInstr ELSE fetch(Th).i))

\* the loop ends: PC has reached or passed the end of the code
RunReturn ==
    /\ mode = "run"
    /\ pc >= Len(code)
    /\ Commit(Th, "idle", Did("return", 0, NoInstr))

Next ==
    \/ \E v \in PushValues : CallPush(v)
    \/ CallPop
    \/ \E o \in EbpOffsets, fn \in Funcs : CallPushFrame(o, fn)
    \/ \E k \in Keeps : CallPopFrame(k)
    \/ \E k \in Keeps, fn \in Funcs : CallReplaceFrame(k, fn)
    \/ RunEnter
    \/ RunStep
    \/ RunReturn

Spec == Init /\ [][Next]_vars

(***************************************************************************)
(* Programs.  A program is a function with the values the embedder pushes  *)
(* before it runs it; thread_test.go sets a thread up this way:            *)
(* NewThread, pushFrame(0, fn), one Push per value, then Run.              *)
(***************************************************************************)
Prog(c, k, s) == [code |-> c, consts |-> k, stack |-> s]

\* TestOpAdd (thread_test.go): every word comes from mkBinaryInstr; the
\* embedder pushes two float64 and two int
TestOpAddCode ==
    << mkBinaryInstr(OpReserve, R(0), R(0), K(1)).w,
       mkBinaryInstr(OpPush, R(0), R(0), K(2)).w,
       mkBinaryInstr(OpAdd, R(2), R(2), K(3)).w,
       mkBinaryInstr(OpLoad, R(31), R(0), K(1)).w,
       mkBinaryInstr(OpLoad, R(11), R(0), S(-3)).w,
       mkBinaryInstr(OpAdd, R(11), R(11), K(2)).w,
       mkBinaryInstr(OpAdd, R(11), R(11), S(3)).w,
       mkBinaryInstr(OpAdd, R(11), R(11), R(31)).w,
       mkBinaryInstr(OpAdd, R(11), R(11), K(2)).w,
       mkBinaryInstr(OpSub, R(4), R(11), K(1)).w >>

TestOpAdd ==
    Prog(TestOpAddCode,
         <<FloatV(0), FloatV(4), FloatQ(103, 10), IntV(-1)>>,
         <<GoFloat(643219, 1000), GoInt(5), GoFloat(-12345, 100), GoInt(1)>>)

\* the same computation with Load, Push and Reserve assembled by their own
\* encoders
LoadedAddCode ==
    << mkBinaryInstr(OpReserve, NilIndex, NilIndex, K(1)).w,
       mkPushPop(OpPush, 1, K(2)).w,
       mkBinaryInstr(OpAdd, R(2), R(2), K(3)).w,
       mkLoadInstr(R(31), K(1)).w,
       mkLoadInstr(R(11), S(-3)).w,
       mkBinaryInstr(OpAdd, R(11), R(11), K(2)).w,
       mkBinaryInstr(OpAdd, R(11), R(11), S(3)).w,
       mkBinaryInstr(OpAdd, R(11), R(11), R(31)).w,
       mkBinaryInstr(OpAdd, R(11), R(11), K(2)).w,
       mkBinaryInstr(OpSub, R(4), R(11), K(1)).w >>

LoadedAdd == Prog(LoadedAddCode, TestOpAdd.consts, TestOpAdd.stack)

\* two loads, then a division or a remainder of two integers; the divisors
\* K(1) and K(2) are zero
DivideConsts == <<IntV(7), IntV(0), UintV(0), IntV(3)>>
DivideStack == <<IntV(1), UintV(9)>>

DividePrograms ==
    { Prog(<< mkLoadInstr(R(4), K(0)).w,
              mkLoadInstr(R(5), K(3)).w,
              mkBinaryInstr(op, out, a, b).w >>,
           DivideConsts, DivideStack) :
        op \in {OpDiv, OpMod}, out \in {R(4), S(0)}, a \in {R(5), S(1)},
        b \in {K(1), K(2), K(3)} }

\* a load, then a Reserve of the value of a constant, of a register or of
\* the top of the stack
ReserveSizes == {-3, -1, 0, 1, 3, 6}
ReserveStacks == {<<>>, <<IntV(1)>>, <<IntV(1), IntV(2), IntV(4)>>}

ReservePrograms ==
    { Prog(<< mkLoadInstr(R(4), K(0)).w,
              mkBinaryInstr(OpReserve, NilIndex, NilIndex, b).w,
              mkLoadInstr(R(5), K(0)).w >>,
           <<IntV(n)>>, s) :
        n \in ReserveSizes, s \in ReserveStacks, b \in {K(0), R(4)} }

\* loads into the ends of a register range, then the range pushed and
\* popped back
ProbeRegRanges ==
    {<<3, 1>>, <<3, 2>>, <<4, 3>>, <<62, 2>>, <<63, 1>>, <<30, 8>>, <<3, 61>>}

PushPopPrograms ==
    { Prog(<< mkLoadInstr(R(dn[1]), K(0)).w,
              mkLoadInstr(R(dn[1] + dn[2] - 1), K(1)).w,
              mkPushPop(OpPush, dn[2], R(dn[1])).w,
              mkPushPop(OpPop, dn[2], R(dn[1])).w >>,
           <<IntV(11), IntV(12)>>, s) :
        dn \in ProbeRegRanges, s \in {<<>>, <<IntV(1)>>} }

\* a load into register r, then Round of register r as mkBinaryInstr
\* assembles it
RoundPrograms ==
    { Prog(<< mkLoadInstr(R(r), K(0)).w,
              mkBinaryInstr(OpRound, R(4), R(r), b).w >>,
           <<f>>, <<>>) :
        r \in {3, 4, 5, 63}, b \in {NilIndex, K(0)},
        f \in {FloatQ(5, 2), FloatQ(-5, 2)} }

\* programs that ask for a handler that is not there, that end in the first
\* word of an extended load, and that go back: a jump and a load into PC
OtherPrograms ==
    { Prog(<<mkLoadInstr(R(3), K(0)).w, Place(OpCall, 5, 1)>>, <<IntV(1)>>, <<>>),
      Prog(<<mkLoadInstr(R(3), K(0)).w, mkXloadInstr(R(5), R(3)).w>>,
           <<IntV(1)>>, <<>>),
      Prog(<<mkLoadInstr(R(3), K(0)).w, mkJumpInstr(-2, NilIndex).w>>,
           <<IntV(1)>>, <<>>),
      Prog(<<mkLoadInstr(R(3), K(0)).w, mkLoadInstr(R(0), K(1)).w>>,
           <<IntV(1), IntV(0)>>, <<>>) }

Programs ==
    {TestOpAdd, LoadedAdd} \cup DividePrograms \cup ReservePrograms
        \cup PushPopPrograms \cup RoundPrograms \cup OtherPrograms

\* the thread NewThread returns
Fresh ==
    [pc |-> 0, ebp |-> 0, code |-> <<>>, consts |-> <<>>, stack |-> <<>>,
     tail |-> Nils(InitCap), frames |-> <<>>,
     reg |-> [i \in specialRegisters..(registerCount - 1) |-> Nil],
     fault |-> "none"]

RECURSIVE PushAll(_, _)
PushAll(t, vals) ==
    IF vals = <<>> THEN t ELSE PushAll(Push(t, Head(vals)), Tail(vals))

\* the thread with program p set up to run
Installed(p) ==
    PushAll(pushFrame(Fresh, 0, [pc |-> 0, code |-> p.code, consts |-> p.consts]),
            p.stack)

ProgInit ==
    \E p \in Programs :
        LET t == Installed(p) IN
        /\ pc = t.pc
        /\ ebp = t.ebp
        /\ code = t.code
        /\ consts = t.consts
        /\ stack = t.stack
        /\ tail = t.tail
        /\ frames = t.frames
        /\ reg = t.reg
        /\ fault = t.fault
        /\ mode = "idle"
        /\ runs = 0
        /\ last = [op |-> "Push", arg |-> 0, afterPush |-> FALSE]
        /\ err = NotReturned
        /\ built = NoBuilt
        /\ calc = NoCalc

ProgNext ==
    \/ RunEnter
    \/ RunStep
    \/ RunReturn

ProgSpec == ProgInit /\ [][ProgNext]_vars

\* Run is a loop of one goroutine: it takes its next round, and returns
\* when the loop test fails.  RunStepFair is WF_vars(RunStep) with
\* ENABLED <<RunStep>>_vars written out: a round can be taken exactly while
\* Run is in its loop with PC below the end of the code.
RunStepFair ==
    \/ []<>(~(mode = "run" /\ pc < Len(code)))
    \/ []<><<RunStep>>_vars

FairProgSpec == ProgSpec /\ RunStepFair /\ WF_vars(RunReturn)

(***************************************************************************)
(* Properties.                                                             *)
(***************************************************************************)
\* the instruction word at a PC inside the code
WordAt(a) == code[a + 1]

InCode == pc >= 0 /\ pc < Len(code)

\* a one-word literal jump
IsLiteralJump(w) ==
    ~isExt(w) /\ Bits(w, 1, 5) = OpJump /\ HasFlag(w, opJumpLiteral)

\* C1: EBP <= ESP in every reachable state; an operation that would leave
\* ESP below EBP raises stack-underflow instead of completing
C1_EbpBelowEsp == ebp <= Len(stack)

\* C2: 0 <= PC <= len(code) at every point of a run
C2_PcInRange == pc >= 0 /\ pc <= Len(code)

\* C3: every slot of the backing array at a position >= ESP is empty
C3_TailEmpty == \A i \in 1..Len(tail) : tail[i] = Nil

\* C3 witness: a write to ESP has grown the stack over a slot that a Pop
\* had emptied (capacity 4 comes from the third Push only)
C3_Witness ==
    /\ last.op = "step" /\ fault = "none" /\ code = codeB /\ pc = 1
    /\ InitCap = 2 => Len(stack) + Len(tail) = 4
    /\ Len(stack) = 3 /\ stack[3] = Nil /\ stack[2] # Nil

\* values and stack displacements the store/load property is tried with
ProbeValues == {Nil, IntV(2), Cmp(1)}
ProbeStack == -3..3

\* C4: a store through a plain register or an in-range Stack index is read
\* back unchanged by load, and changes nothing else of the thread
C4_StoreLoad ==
    \A v \in ProbeValues :
        /\ \A r \in specialRegisters..(registerCount - 1) :
             LET t == store(Th, R(r), v) IN
             /\ t.fault = "none"
             /\ load(t, R(r)) = Loaded(v)
             /\ t = [Th EXCEPT !.reg = [reg EXCEPT ![r] = v]]
        /\ \A i \in ProbeStack :
             LET pos == IF i >= 0 THEN ebp + i ELSE Len(stack) + i
                 t == store(Th, S(i), v)
             IN pos >= 0 /\ pos < Len(stack) =>
                  /\ t.fault = "none"
                  /\ load(t, S(i)) = Loaded(v)
                  /\ t = [Th EXCEPT !.stack = [stack EXCEPT ![pos + 1] = v]]

\* C4 witness: the Load of codeA has stored a constant in register 3
C4_Witness ==
    /\ last.op = "step" /\ fault = "none" /\ code = codeA /\ pc = 7
    /\ reg[3] = Cmp(1)

\* C5: a one-word Test at a: when it passes and a one-word literal Jump(off)
\* follows, the step ends at a + 1 + 1 + off; when it fails before such a
\* jump, at a + 2; when it passes and no jump follows, at a + 1
C5_FusedTestJump ==
    (mode = "run" /\ InCode /\ ~isExt(WordAt(pc))
       /\ execerSlot(Instr(WordAt(pc), 0)) = OpTest) =>
    LET a == pc
        o == testOutcome(Th, Instr(WordAt(a), 0))
        t == runStep(Th)
        jumpNext == a + 1 < Len(code) /\ IsLiteralJump(WordAt(a + 1))
        nonJumpNext == a + 1 >= Len(code)
                         \/ Opcode(Instr(WordAt(a + 1), 0)) # OpJump
    IN /\ (o = "pass" /\ jumpNext) =>
            /\ t.fault = "none"
            /\ t.pc = a + 1 + 1 + jumpOffset(Instr(WordAt(a + 1), 0)).off
       /\ (o = "fail" /\ jumpNext) => (t.fault = "none" /\ t.pc = a + 2)
       /\ (o = "pass" /\ nonJumpNext) => (t.fault = "none" /\ t.pc = a + 1)

\* C5 witness: the Test at 2 of codeA has passed and taken the jump at 3
C5_Witness ==
    /\ last.op = "step" /\ fault = "none" /\ mode = "run"
    /\ code = codeA /\ pc = 5

\* C6: Test with op lt (eq) and Want = true on a left value that has the
\* LessThan (EqualTo) capability executes the next instruction iff
\* left.LessThan(right) (left.EqualTo(right)), and skips it otherwise
C6_TestComparesValues ==
    (mode = "run" /\ InCode /\ ~isExt(WordAt(pc))
       /\ execerSlot(Instr(WordAt(pc), 0)) = OpTest
       /\ cmpOp(Instr(WordAt(pc), 0)) \in {cmpLess, cmpEqual}
       /\ cmpWant(Instr(WordAt(pc), 0))
       /\ pc + 1 < Len(code) /\ ~isExt(WordAt(pc + 1))) =>
    LET i == Instr(WordAt(pc), 0)
        l == load(Th, cmpArgA(i))
        r == load(Th, cmpArgB(i))
        holds == IF cmpOp(i) = cmpLess THEN LessThan(l.v, r.v)
                 ELSE EqualTo(l.v, r.v)
        skipped == runStep(Th).pc = pc + 2
    IN (l.fault = "none" /\ r.fault = "none" /\ l.v.k = "Cmp") =>
         (skipped <=> ~holds)

\* C7: with the ExtBit set and a following word, Run dispatches the word at
\* PC as the low and the word at PC + 1 as the high half and advances PC
\* by 2; with the ExtBit clear, the word at PC alone and PC advances by 1
C7_ExtFetch ==
    (mode = "run" /\ InCode) =>
    IF isExt(WordAt(pc)) /\ pc + 1 < Len(code)
    THEN fetch(Th) = [i |-> Instr(WordAt(pc), WordAt(pc + 1)), sz |-> 2]
    ELSE fetch(Th) = [i |-> Instr(WordAt(pc), 0), sz |-> 1]

\* C8: pushFrame(ebpOffset, fn), where it succeeds, followed by popFrame(0)
\* restores PC, EBP, code, constants and the frame chain
C8_PushPopFrame ==
    \A o \in EbpOffsets, fn \in Funcs :
        LET t1 == pushFrame(Th, o, fn) IN
        t1.fault = "none" =>
            LET t2 == popFrame(t1, 0) IN
            /\ t2.fault = "none"
            /\ t2.pc = pc /\ t2.ebp = ebp
            /\ t2.code = code /\ t2.consts = consts
            /\ t2.frames = frames

\* C8 witness: popFrame(0) has returned right after a pushFrame that
\* installed another function
C8_Witness ==
    /\ last.op = "popFrame" /\ last.arg = 0 /\ last.afterPush
    /\ fault = "none" /\ Len(stack) > 0

\* C9: pushFrame faults for ebpOffset > 0, raises underflow only when
\* len(stack) + ebpOffset < EBP, and otherwise installs the frame
C9_PushFrame ==
    \A o \in EbpOffsets, fn \in Funcs :
        LET t == pushFrame(Th, o, fn) IN
        /\ o > 0 => t.fault # "none"
        /\ t.fault = "underflow" => Len(stack) + o < ebp
        /\ (o <= 0 /\ Len(stack) + o >= ebp) =>
             t = [Th EXCEPT !.ebp = Len(stack) + o, !.pc = fn.pc,
                            !.code = fn.code, !.consts = fn.consts,
                            !.frames = Append(frames, Frame(Th))]

\* the thread after a popFrame(keep) that does what C10 says
PoppedFrame(keep) ==
    LET f == frames[Len(frames)] IN
    [pc |-> f.pc, ebp |-> f.ebp, code |-> f.code, consts |-> f.consts,
     stack |-> SubSeq(stack, 1, ebp)
                 \o SubSeq(stack, Len(stack) - keep + 1, Len(stack)),
     tail |-> Nils(Len(stack) + Len(tail) - (ebp + keep)),
     frames |-> SubSeq(frames, 1, Len(frames) - 1),
     reg |-> reg, fault |-> "none"]

\* C10: popFrame(keep) with a frame to pop and 0 <= keep <= ESP - EBP moves
\* the top keep values down to the callee's EBP, zeroes the rest and
\* restores the saved frame; every other call raises stack-underflow
C10_PopFrame ==
    \A keep \in Keeps :
        IF Len(frames) > 0 /\ 0 <= keep /\ keep <= Len(stack) - ebp
        THEN popFrame(Th, keep) = PoppedFrame(keep)
        ELSE popFrame(Th, keep).fault = "underflow"

\* the same, in the states where EBP <= ESP holds
C10_PopFrameWithinWindow == ebp <= Len(stack) => C10_PopFrame

\* ranges and stack displacements the ranged push and pop are tried with
ProbeRanges == 1..2

\* the instruction word of a one-word push or pop, as dispatched
PushWord(n, src) == Instr(mkPushPop(OpPush, n, src).w, 0)
PopWord(n, dst) == Instr(mkPushPop(OpPop, n, dst).w, 0)

\* the encoded pushes and pops the properties below dispatch
PushStackWords == [n \in ProbeRanges, s \in -2..1 |-> PushWord(n, S(s))]
PopStackWords == [n \in ProbeRanges, d \in -2..1 |-> PopWord(n, S(d))]
PopRegWords == [n \in ProbeRanges, d \in {3, 4, 62, 63} |-> PopWord(n, R(d))]

\* C11: Push n Stack(s) with s < 0 pushes the values of the n slots
\* s, s-1, ..., s-n+1 as they resolve when the instruction starts, and ESP
\* grows by n
C11_PushStackDescending ==
    \A n \in ProbeRanges, s \in {-2, -1} :
        LET len == Len(stack)
            t == opPush(Th, PushStackWords[n, s])
        IN len + s - (n - 1) >= 0 =>
             /\ t.fault = "none"
             /\ t.stack = stack \o [j \in 1..n |-> stack[len + s - (j - 1) + 1]]

\* C12: Pop n Stack(d) with d >= 0 stores the topmost value into
\* Stack(d+n-1) and each following value one address lower, the n-th into
\* Stack(d)
C12_PopStackDescending ==
    \A n \in ProbeRanges, d \in 0..1 :
        LET len == Len(stack)
            hi == ebp + d + n - 1
            t == opPop(Th, PopStackWords[n, d])
        IN (ebp >= 0 /\ hi < len - n) =>
             /\ t.fault = "none"
             /\ t.stack = [k \in 1..(len - n) |->
                             IF k - 1 >= ebp + d /\ k - 1 <= hi
                             THEN stack[len - (hi - (k - 1))]
                             ELSE stack[k]]

\* C13: Pop n Reg(d) with d >= 3, d + n <= 64 and n values on the stack
\* stores the topmost value into register d+n-1, ..., the n-th into
\* register d, changes no other register and lowers ESP by n
C13_PopRegisters ==
    \A n \in ProbeRanges, d \in {3, 4, 62, 63} :
        LET len == Len(stack)
            t == opPop(Th, PopRegWords[n, d])
        IN (d + n <= registerCount /\ len >= n) =>
             /\ t.fault = "none"
             /\ t.reg = [r \in specialRegisters..(registerCount - 1) |->
                           IF r >= d /\ r <= d + n - 1
                           THEN stack[len - (d + n - 1 - r)]
                           ELSE reg[r]]
             /\ Len(t.stack) = len - n

\* C13 witness: the pop 2 r4 of codeB has put two different values into
\* registers 4 and 5
C13_Witness ==
    /\ last.op = "step" /\ fault = "none" /\ code = codeB /\ pc = 8
    /\ reg[4] # reg[5]

\* the stack lengths a store to register 2 is tried with
ProbeEsp == -1..6

\* C14: storing an integer v >= EBP to Reg(2) succeeds and leaves ESP = v,
\* the slots below min(old ESP, v) unchanged and the newly exposed slots
\* empty, also beyond the capacity; storing v < EBP raises stack-underflow
\* and leaves the stack unchanged
C14_EspStore ==
    \A v \in ProbeEsp :
        LET len == Len(stack)
            t == store(Th, R(2), IntV(v))
        IN IF v >= ebp
           THEN /\ t.fault = "none"
                /\ Len(t.stack) = v
                /\ \A k \in 1..v : t.stack[k] = IF k <= len THEN stack[k] ELSE Nil
           ELSE t.fault = "underflow" /\ t.stack = stack

\* the stack displacements an index is resolved with
ProbeStackWide == -6..6

\* C15: Stack(i) resolves to slot EBP + i for i >= 0 and to len(stack) + i
\* for i < 0; a load or store through it succeeds iff that position lies in
\* [0, len(stack)), and otherwise raises stack-range and changes nothing
C15_StackIndex ==
    \A i \in ProbeStackWide, v \in ProbeValues :
        LET len == Len(stack)
            pos == IF i >= 0 THEN ebp + i ELSE len + i
            l == load(Th, S(i))
            t == store(Th, S(i), v)
        IN IF pos >= 0 /\ pos < len
           THEN /\ l = Loaded(stack[pos + 1])
                /\ t = [Th EXCEPT !.stack = [stack EXCEPT ![pos + 1] = v]]
           ELSE /\ l.fault = "stackrange"
                /\ t = Raise(Th, "stackrange")

\* C15 witness: the pop 2 stack[0] of codeB has raised stack-range, with
\* EBP at the top of what the pops left
C15_Witness ==
    /\ last.op = "step" /\ fault = "stackrange" /\ code = codeB /\ pc = 4
    /\ ebp >= Len(stack)

\* C16: dispatching a word whose 5-bit opcode field is 25..31, for which
\* the dispatch table has no handler, raises an invalid-opcode fault
C16_InvalidOpcode ==
    \A op \in opCount..31 :
        exec(Th, Instr(2 * op, 0)).fault = "invalidopcode"

\* C17: RunProtected returns nil iff Run reached PC >= len(code) without a
\* fault, and otherwise a RuntimePanic holding exactly the fault raised
C17_RunProtected ==
    /\ last.op = "return" =>
         (err = NilError /\ fault = "none" /\ pc >= Len(code))
    /\ (last.op = "step" /\ mode = "idle") =>
         (fault # "none" /\ err = RuntimePanic(fault))
    /\ err = NilError => last.op = "return"
    /\ mode = "run" => (fault = "none" /\ err = NotReturned)

\* C17 witness: RunProtected has returned the stack-range fault of a handler
C17_Witness ==
    /\ last.op = "step" /\ mode = "idle"
    /\ err = RuntimePanic("stackrange")

\* the constant positions a load or store is tried with
ProbeConsts == -1..4

\* C18: a load through Const(k) returns consts[k] for 0 <= k < len(consts)
\* and raises an invalid-constant-index fault for every other k
C18_ConstLoad ==
    \A k \in ProbeConsts :
        LET l == load(Th, K(k)) IN
        IF k >= 0 /\ k < Len(consts)
        THEN l = Loaded(consts[k + 1])
        ELSE l.fault = "constindex"

\* the operations of a thread that are not frame operations
StackOrCodeOps == {"Push", "Pop", "Run", "step", "return"}

\* C19: every store through a Const index raises a fault, and neither an
\* instruction nor a stack or register operation of the embedder changes
\* the constants of the current frame
C19_ConstsImmutable ==
    /\ [](\A k \in ProbeConsts, v \in ProbeValues :
             LET t == store(Th, K(k), v) IN
             t.fault # "none" /\ t.consts = consts)
    /\ [][last'.op \in StackOrCodeOps => consts' = consts]_vars

\* C19 witness: codeB has stored into ESP, the stack and two registers, and
\* its constants are as installed
C19_Witness ==
    /\ last.op = "step" /\ fault = "none" /\ code = codeB /\ pc = 8
    /\ consts = fnB.consts /\ reg[5] # Nil

\* the includes and excludes tests, encoded
UnimplementedTests ==
    [c \in {cmpIncludes, cmpExcludes}, want \in BOOLEAN,
     a \in {K(0), R(3), S(0)}, b \in {K(1), R(2), S(-1)} |->
        Instr(mkTestInstr(c, want, a, b).w, 0)]

\* C20: a Test whose op is includes or excludes raises a fault for either
\* Want and any operands, and neither skips nor continues
C20_IncludesExcludes ==
    \A x \in DOMAIN UnimplementedTests :
        LET t == opTest(Th, UnimplementedTests[x]) IN
        t.fault # "none" /\ t.pc = pc

\* C20 witness: the includes test that ends codeB has raised its fault
C20_Witness ==
    /\ last.op = "step" /\ fault = "badcmp" /\ code = codeB /\ pc = 9

(***************************************************************************)
(* The encoders and decoders as a machine of their own: the initial state  *)
(* holds the operands handed to one encoder, drawn from the ends of each   *)
(* field and the first values past them, and the one step applies the      *)
(* encoder.  The thread stays as NewThread leaves it.                      *)
(***************************************************************************)
thread == <<pc, ebp, code, consts, stack, tail, frames, reg, fault, mode, runs,
            last, err>>

Operands(fn, op, n, out, a, b) ==
    [fn |-> fn, op |-> op, n |-> n, out |-> out, a |-> a, b |-> b,
     done |-> FALSE, res |-> Enc(0)]

\* the word of the instruction built, as the decoders take it
Word == Instr(built.res.w, built.res.hi)

Applied(fn) == built.fn = fn /\ built.done

Apply(res) ==
    /\ ~built.done
    /\ built' = [built EXCEPT !.done = TRUE, !.res = res]
    /\ UNCHANGED <<thread, calc>>

ProbeRegisters == {R(n) : n \in {-1, 0, 21, 63, 64}}
ProbeOut == ProbeRegisters \cup {S(n) : n \in {-33, -32, -1, 0, 31, 32}}
ProbeArgB ==
    ProbeRegisters \cup {K(n) : n \in {-1, 0, 1023, 1024, 2047, 2048}}
                   \cup {S(n) : n \in {-513, -512, -1, 0, 511, 512}}

\* every opcode over a few operands, and two opcodes over every probe
BinaryInputs ==
    {Operands("mkBinaryInstr", op, 0, o, a, b) :
        op \in 0..(opCount - 1), o \in {R(63), S(-32), NilIndex},
        a \in {R(0), S(31)}, b \in {R(63), K(2047), S(-512), S(511)}}
    \cup
    {Operands("mkBinaryInstr", op, 0, o, a, b) :
        op \in {OpAdd, OpRound}, o \in ProbeOut \cup {NilIndex},
        a \in ProbeOut, b \in ProbeArgB}

mkBinaryInstrApply ==
    /\ built.fn = "mkBinaryInstr"
    /\ Apply(mkBinaryInstr(built.op, built.out, built.a, built.b))

\* the operand domain of the binary form
InField(ix, regs, lo, hi, top) ==
    \/ ix.kind = "reg" /\ regs /\ InRegs(ix.n)
    \/ ix.kind = "stack" /\ ix.n >= lo /\ ix.n <= hi
    \/ ix.kind = "const" /\ ix.n >= 0 /\ ix.n <= top

BinaryDomain ==
    /\ InField(built.out, TRUE, -32, 31, -1)
    /\ InField(built.a, TRUE, -32, 31, -1)
    /\ InField(built.b, TRUE, -512, 511, 2047)

\* C21: a binary instruction built by mkBinaryInstr from an opcode and
\* operands of the representable domain (out and argA a register 0..63 or a
\* stack offset -32..31, argB a register, a constant 0..2047 or a stack
\* offset -512..511) is accepted, and Opcode, regOut, argA and argB decode
\* exactly the opcode and the operands it was built from.
C21_BinaryRoundTrip ==
    Applied("mkBinaryInstr") /\ BinaryDomain =>
        /\ built.res.err = "none"
        /\ Opcode(Word) = built.op
        /\ regOut(Word) = built.out
        /\ argA(Word) = built.a
        /\ argB(Word) = built.b

C21_Witness ==
    /\ Applied("mkBinaryInstr") /\ BinaryDomain
    /\ built.op = OpRound
    /\ built.out = S(-32) /\ built.a = S(31) /\ built.b = K(2047)


BinaryFieldInputs ==
    {[x EXCEPT !.fn = "mkBinaryInstrFields"] :
        x \in {y \in BinaryInputs : y.op = OpAdd}}

mkBinaryInstrFieldsApply ==
    /\ built.fn = "mkBinaryInstrFields"
    /\ Apply(mkBinaryInstrFields(built.op, built.out, built.a, built.b))

\* an operand its field cannot hold
OutOfField(ix, lo, hi, top) ==
    \/ ix.kind = "reg" /\ ~InRegs(ix.n)
    \/ ix.kind = "stack" /\ (ix.n < lo \/ ix.n > hi)
    \/ ix.kind = "const" /\ (ix.n < 0 \/ ix.n > top)

BinaryOutOfField ==
    \/ OutOfField(built.out, -32, 31, -1)
    \/ OutOfField(built.a, -32, 31, -1)
    \/ OutOfField(built.b, -512, 511, 2047)

\* C22: an encoder handed an operand its field cannot represent (a register
\* outside 0..63, a stack offset outside the signed range of its field, a
\* constant index beyond the width of its field) ends with a fault instead
\* of an instruction.
C22_OutOfFieldRejected ==
    (Applied("mkBinaryInstr") \/ Applied("mkBinaryInstrFields"))
        /\ BinaryOutOfField
    => built.res.err # "none"

\* the largest and the smallest integer of the model: 2^31 - 1 and -2^31
MaxWord == 2147483647
MinWord == Bit31

LoadInputs ==
    {Operands("mkLoadInstr", OpLoad, 0, NilIndex, dst, src) :
        dst \in ProbeRegisters \cup {S(n) : n \in {-65, -64, -1, 0, 63, 64}},
        src \in ProbeRegisters
                \cup {K(n) : n \in {-1, 0, 32767, 32768, 65535, 65536}}
                \cup {S(n) : n \in {-32769, -32768, -1, 0, 32767, 32768}}}

\* a constant index of xload goes up to 2^32 - 1; the probes stop at the
\* largest integer of the model
XloadInputs ==
    {Operands("mkXloadInstr", OpLoad, 0, NilIndex, dst, src) :
        dst \in ProbeRegisters
                \cup {S(n) : n \in {-32769, -32768, -1, 0, 32767, 32768}},
        src \in ProbeRegisters
                \cup {K(n) : n \in {-1, 0, 65535, 65536, MaxWord}}
                \cup {S(n) : n \in {MinWord, -32769, -1, 0, 32768, MaxWord}}}

mkLoadInstrApply ==
    /\ built.fn = "mkLoadInstr"
    /\ Apply(mkLoadInstr(built.a, built.b))

mkXloadInstrApply ==
    /\ built.fn = "mkXloadInstr"
    /\ Apply(mkXloadInstr(built.a, built.b))

LoadDomain ==
    /\ InField(built.a, TRUE, -64, 63, -1)
    /\ InField(built.b, TRUE, -32768, 32767, 65535)

XloadDomain ==
    /\ InField(built.a, TRUE, -32768, 32767, -1)
    /\ InField(built.b, TRUE, MinWord, MaxWord, MaxWord)

\* C23: a load built by mkLoadInstr (destination a register or a stack
\* offset -64..63, source a register, a constant 0..65535 or a stack offset
\* -32768..32767) or by mkXloadInstr (destination a register or a stack
\* offset -32768..32767, source a register, a constant or a stack offset of
\* 32 bits) is accepted; loadDst and loadSrc decode exactly the destination
\* and the source, Opcode decodes Load, and the extension bit is set exactly
\* on the instruction of mkXloadInstr.
C23_LoadRoundTrip ==
    (Applied("mkLoadInstr") /\ LoadDomain)
        \/ (Applied("mkXloadInstr") /\ XloadDomain)
    => /\ built.res.err = "none"
       /\ Opcode(Word) = OpLoad
       /\ loadDst(Word) = built.a
       /\ loadSrc(Word) = built.b
       /\ isExt(Word.lo) <=> built.fn = "mkXloadInstr"

C23_Witness ==
    /\ Applied("mkXloadInstr") /\ XloadDomain
    /\ built.a = S(-32768) /\ built.b = K(MaxWord)

ProbeOffsets == {-16777217, -16777216, -1, 0, 1, 50, 16777215, 16777216}

JumpInputs ==
    {Operands("mkJumpInstr", OpJump, off, NilIndex, NilIndex, src) :
        off \in ProbeOffsets,
        src \in {NilIndex} \cup ProbeRegisters
                \cup {K(n) : n \in {-1, 0, 8388607, 8388608, 16777215,
                                    16777216}}
                \cup {S(n) : n \in {-4194305, -4194304, -1, 0, 4194303,
                                    4194304}}}

mkJumpInstrApply ==
    /\ built.fn = "mkJumpInstr"
    /\ Apply(mkJumpInstr(built.n, built.b))

\* C24: mkJumpInstr given a literal offset -2^24..2^24-1 and no index gives
\* an instruction that decodes to that offset and a nil index; given a
\* register 0..63, a constant 0..2^24-1 or a stack offset -2^22..2^22-1 and
\* offset 0 it gives one that decodes to the same index; given an index and
\* an offset other than 0 it ends with a fault.
C24_JumpRoundTrip ==
    Applied("mkJumpInstr") =>
        /\ built.b = NilIndex /\ built.n >= -16777216 /\ built.n <= 16777215
           => /\ built.res.err = "none"
              /\ Opcode(Word) = OpJump
              /\ jumpOffset(Word) = [off |-> built.n, ix |-> NilIndex]
        /\ built.n = 0 /\ InField(built.b, TRUE, -4194304, 4194303, 16777215)
           => /\ built.res.err = "none"
              /\ Opcode(Word) = OpJump
              /\ jumpOffset(Word).ix = built.b
        /\ built.b # NilIndex /\ built.n # 0 => built.res.err # "none"

C24_Witness ==
    /\ Applied("mkJumpInstr")
    /\ built.n = 0 /\ built.b = K(16777215)
    /\ built.res.err = "none"

PushPopInputs ==
    {Operands("mkPushPop", op, n, NilIndex, NilIndex, arg) :
        op \in {OpPush, OpPop, OpAdd}, n \in 0..65,
        arg \in {R(n) : n \in {-1, 0, 21, 31, 32, 63, 64}}
                \cup {S(n) : n \in {-131073, -131072, -1, 0, 131071, 131072}}
                \cup {K(n) : n \in {-1, 0, 131071, 131072, 262143, 262144}}}

mkPushPopApply ==
    /\ built.fn = "mkPushPop"
    /\ Apply(mkPushPop(built.op, built.n, built.b))

PushPopDomain ==
    /\ built.op \in {OpPush, OpPop}
    /\ built.n >= 1 /\ built.n <= 64
    /\ \/ built.b.kind = "reg" /\ built.b.n >= 0
          /\ built.b.n + built.n <= registerCount
       \/ built.b.kind = "stack" /\ built.b.n >= -131072
          /\ built.b.n <= 131071
       \/ built.b.kind = "const" /\ built.op = OpPush /\ built.b.n >= 0
          /\ built.b.n <= 262143

\* C25: a Push or Pop built by mkPushPop from a count n of 1..64 and a
\* target of its domain (a register r with r + n <= 64, a stack offset
\* -131072..131071, for Push a constant 0..262143) is accepted, pushPopRange
\* decodes n and pushArg (popArg for Pop) decodes the target; a count
\* outside 1..64 ends with a fault.
C25_PushPopRoundTrip ==
    Applied("mkPushPop") =>
        /\ PushPopDomain
           => /\ built.res.err = "none"
              /\ Opcode(Word) = built.op
              /\ pushPopRange(Word) = built.n
              /\ built.b = IF built.op = OpPush THEN pushArg(Word)
                           ELSE popArg(Word)
        /\ built.n < 1 \/ built.n > 64 => built.res.err # "none"

C25_Witness ==
    /\ Applied("mkPushPop") /\ PushPopDomain
    /\ built.op = OpPop /\ built.n = 64 /\ built.b = R(0)

\* C26: mkPushPop given the opcode Pop and a constant index as the target
\* ends with a fault.
C26_PopConstRejected ==
    Applied("mkPushPop") /\ built.op = OpPop /\ built.b.kind = "const"
    => built.res.err # "none"

\* C27: an instruction that mkBinaryInstr accepts never has both the
\* constant flag (bit 20) and the stack flag (bit 31) of argB set, and when
\* both are clear argB decodes a register.
C27_ArgBFlagsExclusive ==
    Applied("mkBinaryInstr") /\ built.res.err = "none" =>
        /\ ~(HasFlag(Word.lo, opBinArgBConst) /\ HasFlag(Word.lo, opBinArgBStack))
        /\ ~HasFlag(Word.lo, opBinArgBConst) /\ ~HasFlag(Word.lo, opBinArgBStack)
           => argB(Word).kind = "reg"

\* the thread after a replaceFrame(keep, fn) that does what C35 says
ReplacedFrame(keep, fn) ==
    [Th EXCEPT !.pc = fn.pc, !.code = fn.code, !.consts = fn.consts,
               !.stack = SubSeq(stack, 1, ebp)
                           \o SubSeq(stack, Len(stack) - keep + 1, Len(stack)),
               !.tail = Nils(Len(stack) + Len(tail) - (ebp + keep))]

\* C35: replaceFrame(keep, fn) with 0 <= keep <= ESP - EBP leaves EBP and
\* the frame chain as they are, moves the top keep values in order to
\* EBP .. EBP+keep-1, sets ESP to EBP + keep, zeroes what it drops and
\* installs fn's code, constants and starting pc
C35_ReplaceFrame ==
    \A keep \in Keeps, fn \in Funcs :
        (0 <= keep /\ keep <= Len(stack) - ebp) =>
            LET t == replaceFrame(Th, keep, fn) IN
            /\ t = ReplacedFrame(keep, fn)
            /\ t.ebp = ebp /\ t.frames = frames
            /\ Len(t.stack) = ebp + keep
            /\ \A j \in 1..keep :
                  t.stack[ebp + j] = stack[Len(stack) - keep + j]
            /\ \A j \in 1..Len(t.tail) : t.tail[j] = Nil

\* C35 witness: replaceFrame(1, fn) has returned inside a pushed frame and
\* has moved a value from above the base of the frame down to it
C35_Witness ==
    /\ last.op = "replaceFrame" /\ last.arg = 1 /\ fault = "none"
    /\ Len(frames) > 0
    /\ Len(stack) = ebp + 1
    /\ stack[ebp + 1] # IntV(ebp + 1)

\* the thread a popFrame(keep) that underflows has to leave, by C39
Underflowed == Raise(Th, "underflow")

\* C39: a popFrame(keep) that raises stack-underflow because keep is
\* negative or exceeds the slots above EBP leaves the frame chain, the
\* current frame and the stack as they were
C39_PopFrameUnderflow ==
    \A keep \in Keeps :
        (Len(frames) > 0 /\ ebp <= Len(stack)
             /\ (keep < 0 \/ keep > Len(stack) - ebp)) =>
            popFrame(Th, keep) = Underflowed

\* C34: the TestOpAdd program, as mkBinaryInstr assembles it, run from its
\* constants and its initial stack, completes without a fault and leaves
\* the Float 26.6 in register 4
C34_TestOpAdd ==
    (code = TestOpAddCode /\ mode = "idle" /\ runs = 1) =>
        /\ fault = "none"
        /\ last.op = "return"
        /\ reg[4] = FloatQ(133, 5)

\* the same program with Load, Push and Reserve assembled by their own
\* encoders does complete with the Float 26.6 in register 4
LoadedAddCompletes ==
    (code = LoadedAddCode /\ mode = "idle" /\ runs = 1) =>
        /\ fault = "none"
        /\ last.op = "return"
        /\ reg[4] = FloatQ(133, 5)

\* the tags of the integers of the tower and of Go's int
IntegerTags == {"Int", "Uint", "int"}

\* the instruction Run dispatches next, and the thread its handler gets
NextInstr == fetch(Th).i
Dispatched == [Th EXCEPT !.pc = pc + fetch(Th).sz]
Running == mode = "run" /\ pc >= 0 /\ pc < Len(code)

\* C32: a Div or Mod of two integers with a zero divisor raises a fault and
\* leaves the destination, every register and every stack slot as they
\* were; only PC has moved past the instruction
C32_DivideByZero ==
    (Running /\ execerSlot(NextInstr) \in {OpDiv, OpMod}) =>
        LET a == load(Dispatched, argA(NextInstr))
            b == load(Dispatched, argB(NextInstr))
            u == runStep(Th)
        IN (/\ a.fault = "none" /\ b.fault = "none"
            /\ a.v.k \in IntegerTags /\ b.v.k \in IntegerTags
            /\ b.v.v = 0) =>
               /\ u.fault # "none"
               /\ u = [Dispatched EXCEPT !.fault = u.fault]

\* C32 witness: Run has unwound from a Div or Mod by zero whose destination
\* is register 4, and register 4 holds what was loaded into it
C32_Witness ==
    /\ last.op = "step" /\ mode = "idle" /\ fault = "runtime"
    /\ pc = 3
    /\ execerSlot(Instr(code[pc], 0)) \in {OpDiv, OpMod}
    /\ regOut(Instr(code[pc], 0)) = R(4)
    /\ reg[4] = IntV(7)

\* C36: a Reserve whose operand is the integer n asks for room for n more
\* slots and changes nothing else: ESP, EBP, the stack slots and the
\* registers are as before, for n positive, zero or negative
C36_Reserve ==
    (Running /\ execerSlot(NextInstr) = OpReserve) =>
        LET n == load(Dispatched, argB(NextInstr))
            u == runStep(Th)
        IN (n.fault = "none" /\ n.v.k \in IntegerTags) =>
               /\ u.fault = "none"
               /\ u.stack = stack /\ u.ebp = ebp /\ u.reg = reg
               /\ Cap(u) >= Len(stack) + n.v.v
               /\ u = [Dispatched EXCEPT !.tail = u.tail]

\* C36 witness: a Reserve of 6 has returned on a stack of 3 values, with
\* room for 6 more and the register loaded before it in place
C36_Witness ==
    /\ last.op = "step" /\ fault = "none" /\ pc = 2
    /\ execerSlot(Instr(code[pc], 0)) = OpReserve
    /\ consts = <<IntV(6)>>
    /\ stack = <<IntV(1), IntV(2), IntV(4)>>
    /\ Len(tail) = 6
    /\ reg[4] = IntV(6)

\* the next two words are Push n Reg(d) and Pop n Reg(d) of one plain
\* register range
PushThenPop ==
    /\ Running /\ pc + 1 < Len(code)
    /\ LET push == Instr(WordAt(pc), 0)
           pop == Instr(WordAt(pc + 1), 0)
       IN /\ ~isExt(push.lo) /\ ~isExt(pop.lo)
          /\ execerSlot(push) = OpPush /\ execerSlot(pop) = OpPop
          /\ pushArg(push).kind = "reg" /\ popArg(pop) = pushArg(push)
          /\ pushPopRange(pop) = pushPopRange(push)
          /\ pushArg(push).n >= specialRegisters
          /\ pushArg(push).n + pushPopRange(push) <= registerCount

\* C37: Push n Reg(d) followed at once by Pop n Reg(d), for a range of
\* plain registers, leaves the registers, the stack contents and ESP as
\* they were before the Push
C37_PushPopRegisters ==
    PushThenPop =>
        LET u == runStep(runStep(Th)) IN
        /\ u.fault = "none"
        /\ u.reg = reg
        /\ u.stack = stack
        /\ Len(u.stack) = Len(stack)
        /\ u.pc = pc + 2

\* C37 witness: the Pop of such a pair has returned for a range of at least
\* two registers whose ends hold different values
C37_Witness ==
    /\ last.op = "step" /\ fault = "none" /\ pc = 4 /\ Len(code) = 4
    /\ LET push == Instr(code[3], 0)
           pop == Instr(code[4], 0)
       IN /\ execerSlot(push) = OpPush /\ execerSlot(pop) = OpPop
          /\ pushArg(push).kind = "reg" /\ popArg(pop) = pushArg(push)
          /\ pushPopRange(pop) = pushPopRange(push)
          /\ pushPopRange(push) >= 2
          /\ reg[pushArg(push).n] = IntV(11)
          /\ reg[pushArg(push).n + pushPopRange(push) - 1] = IntV(12)
    /\ stack = <<IntV(1)>>

\* the destination of the instruction in word w is Reg(0): the out operand
\* of an arithmetic instruction, the destination of a load, or a register
\* range of a pop that starts at Reg(0)
WritesPC(w) ==
    LET i == Instr(w, 0)
        op == execerSlot(i)
    IN \/ op <= OpRound /\ regOut(i) = R(0)
       \/ op = OpLoad /\ loadDst(i) = R(0)
       \/ op = OpPop /\ popArg(i) = R(0)

\* the code has no Jump, no Test and no instruction with destination Reg(0)
Straight ==
    \A a \in 1..Len(code) :
        /\ execerSlot(Instr(code[a], 0)) \notin {OpJump, OpTest}
        /\ ~WritesPC(code[a])

\* C38: on code without Jump, Test and writes to Reg(0), every dispatched
\* instruction moves PC up, PC stays within 0 .. len(code) (so that at most
\* len(code) instructions are dispatched), Run ends, and it ends with
\* PC = len(code) or with a fault
C38_StraightLine ==
    /\ [][(Straight /\ last'.op = "step") => pc' > pc]_vars
    /\ [](Straight => (pc >= 0 /\ pc <= Len(code)))
    /\ []((Straight /\ mode = "idle" /\ runs = 1) =>
             (fault # "none" \/ pc = Len(code)))
    /\ (Straight /\ mode = "run") ~> (mode = "idle")

\* C38 witness: Run has returned from code of ten words without Jump, Test
\* and writes to Reg(0), with PC at the end of the code
C38_Witness ==
    /\ Straight /\ last.op = "return" /\ fault = "none"
    /\ Len(code) = 10 /\ pc = Len(code)

\* code with a jump back never leaves Run
Loops == mode = "run" /\ ~Straight

\* the Round words with destination Reg(4), over every setting of bits
\* 13 .. 20; argA and argAU read no other bit, and the handler reads the
\* word through argA, argAU and regOut only
RoundWords ==
    { Instr(WordOr(mkBinaryInstr(OpRound, R(4), NilIndex, NilIndex).w,
                   Place(x, 8, 13)), 0) : x \in 0..255 }

\* the registers that hold a number
Numbered == {r \in DOMAIN reg : IsArith(reg[r])}

\* C40: for every source register r and every rounding mode m there is a
\* Round word whose handler reads register r, takes m for its mode, and
\* stores the value of r rounded with m without a fault
C40_RoundModeIndependent ==
    \A r \in Numbered, m \in RoundTruncate..RoundCeil :
        \E i \in RoundWords :
            LET u == opRound(Th, i) IN
            /\ argA(i) = R(r)
            /\ argAU(i) = m
            /\ u.fault = "none"
            /\ u.reg[4] = Stored(round(toarith(reg[r]), m))

\* the one pair the decoders allow: Reg(3) is rounded with RoundCeil
RoundsCeilOfReg3 ==
    IsArith(reg[3]) =>
        \E i \in RoundWords :
            LET u == opRound(Th, i) IN
            /\ argA(i) = R(3) /\ argAU(i) = RoundCeil
            /\ u.fault = "none"
            /\ u.reg[4] = Stored(round(toarith(reg[3]), RoundCeil))

\* a Round of a register above Reg(3) raises the rounding-mode fault
RoundFaultsAboveReg3 ==
    \A i \in RoundWords :
        (/\ argA(i).kind = "reg" /\ argA(i).n > RoundCeil
         /\ \E r \in Numbered : argA(i) = R(r)) =>
            opRound(Th, i).fault = "roundingmode"

(***************************************************************************)
(* The specification of the encoders: one application per behaviour.      *)
(***************************************************************************)
CodecInit ==
    /\ NewThread
    /\ built \in BinaryInputs \cup BinaryFieldInputs \cup LoadInputs
                 \cup XloadInputs \cup JumpInputs
                 \cup PushPopInputs
    /\ calc = NoCalc

CodecNext ==
    \/ mkBinaryInstrApply
    \/ mkBinaryInstrFieldsApply
    \/ mkLoadInstrApply
    \/ mkXloadInstrApply
    \/ mkJumpInstrApply
    \/ mkPushPopApply

CodecSpec == CodecInit /\ [][CodecNext]_vars

(***************************************************************************)
(* The specification of the value tower: the initial state holds an        *)
(* operation and its two operands, the one step applies it.                *)
(***************************************************************************)
Operation(fn, l, r) ==
    [fn |-> fn, l |-> l, r |-> r, done |-> FALSE, res |-> IntV(Zero64)]

Calculated(fn) == calc.fn = fn /\ calc.done

Calculate ==
    /\ ~calc.done
    /\ calc' = [calc EXCEPT !.done = TRUE,
                            !.res = Operate(calc.fn, calc.l, calc.r)]
    /\ UNCHANGED <<thread, built>>

ProbeWords ==
    {W64(n) : n \in {0, 1, 2, 3, 7, -1, -7, -1003, 65537}}
    \cup {MinInt64, MaxInt64}

ProbeInts == {IntV(w) : w \in ProbeWords} \cup {UintV(w) : w \in ProbeWords}

ProbeExponents ==
    {IntV(W64(n)) : n \in {0, 1, 2, 3, 5, 8}}
    \cup {UintV(W64(n)) : n \in {0, 1, 2, 3, 8}}

ProbeCounts ==
    {IntV(W64(n)) : n \in {-65, -64, -63, -9, -8, -1, 0, 1, 4, 8, 9, 63, 64,
                           65}}
    \cup {IntV(MinInt64), IntV(MaxInt64)}
    \cup {UintV(W64(n)) : n \in {0, 1, 4, 63, 64}}
    \cup {FloatQ(n, 10) : n \in {27, -27, 5, -5, 40, -40, 0}}

\* Floats to shift and to round
ProbeFloats == {FloatQ(n, 10) : n \in {-10030, 10035, -10039, 5, -5, 0}}

ProbeModes == {Mode(m) : m \in 0..6}

ArithOps == {"Add", "Sub", "Mul", "Div", "Mod"}

ValueInputs ==
    {Operation(fn, l, r) : fn \in ArithOps, l \in ProbeInts, r \in ProbeInts}
    \cup {Operation("Pow", l, r) : l \in ProbeInts, r \in ProbeExponents}
    \cup {Operation("Pow", l, r) :
            l \in {IntV(W64(2)), IntV(W64(-7)), UintV(W64(0))},
            r \in {IntV(W64(-1)), IntV(W64(-2))}}
    \cup {Operation(fn, l, r) :
            fn \in {"ArithShift", "BitShift"},
            l \in ProbeInts \cup ProbeFloats, r \in ProbeCounts}
    \cup {Operation("Round", l, r) :
            l \in ProbeInts \cup ProbeFloats, r \in ProbeModes}

Add == calc.fn = "Add" /\ Calculate
Sub == calc.fn = "Sub" /\ Calculate
Mul == calc.fn = "Mul" /\ Calculate
Div == calc.fn = "Div" /\ Calculate
Mod == calc.fn = "Mod" /\ Calculate
Pow == calc.fn = "Pow" /\ Calculate
ArithShift == calc.fn = "ArithShift" /\ Calculate
BitShift == calc.fn = "BitShift" /\ Calculate
Round == calc.fn = "Round" /\ Calculate

ValueInit ==
    /\ NewThread
    /\ built = NoBuilt
    /\ calc \in ValueInputs

ValueNext ==
    \/ Add
    \/ Sub
    \/ Mul
    \/ Div
    \/ Mod
    \/ Pow
    \/ ArithShift
    \/ BitShift
    \/ Round

ValueSpec == ValueInit /\ [][ValueNext]_vars

IsInteger(v) == v.k \in {"Int", "Uint"}

\* C28: Add, Sub, Mul, Div and Mod of two integer-tagged operands, the
\* divisor not zero, give a result with the tag of the left operand.
C28_LeftTag ==
    calc.fn \in ArithOps /\ calc.done
        /\ ~(calc.fn \in {"Div", "Mod"} /\ calc.r.v = Zero64)
    => calc.res.k = calc.l.k

\* b * b * ... * b, e factors, in 64 bits
RECURSIVE Power64(_, _)
Power64(b, e) == IF e = 0 THEN One64 ELSE Mul64(b, Power64(b, e - 1))

\* C29: Pow of an Int or Uint base b and an integer exponent e gives
\* Uint(1) for e = 0 and, for e >= 1, b to the power e in 64 bits with the
\* tag of b; for e = 1 that is b.
C29_Pow ==
    Calculated("Pow") /\ ~IsNeg64(calc.r.v) =>
        IF calc.r.v = Zero64 THEN calc.res = UintV(One64)
        ELSE calc.res = [k |-> calc.l.k,
                         v |-> Power64(calc.l.v, IntOf(calc.r.v))]

\* the count a shifter is given, as a number; every count of 64 or more
\* shifts all 64 bits out, so the counts beyond are taken as 64
CountOf(c) ==
    IF c.k = "Float" THEN TruncFloat(c.v)
    ELSE IF IsNeg64(c.v)
         THEN (IF ULess64(Neg64(c.v), W64(64)) THEN IntOf(c.v) ELSE -64)
    ELSE IF ULess64(c.v, W64(64)) THEN IntOf(c.v) ELSE 64

Shifted == Calculated("ArithShift") \/ Calculated("BitShift")

\* C30: ArithShift and BitShift of an Int or Uint by a count of 0 give the
\* operand unchanged, by a count c > 0 the operand shifted right by c, and
\* by a count -c < 0 the operand shifted left by c, zeros entering from
\* below, whichever the shift kind; a Float count is truncated toward zero
\* first.
C30_Shifts ==
    Shifted /\ IsInteger(calc.l) =>
        LET c == CountOf(calc.r) IN
        /\ c = 0 => calc.res = calc.l
        /\ c > 0 => \A i \in 0..63 :
                i + c <= 63 => BitOf(calc.res.v, i) = BitOf(calc.l.v, i + c)
        /\ c < 0 => \A i \in 0..63 :
                BitOf(calc.res.v, i)
                    = (IF i + c >= 0 THEN BitOf(calc.l.v, i + c) ELSE 0)

\* -1003 shifted by -2.7 is -1003 << 2
C30_Witness ==
    /\ Calculated("BitShift")
    /\ calc.l = IntV(W64(-1003))
    /\ calc.r = FloatQ(-27, 10)
    /\ calc.res = IntV(W64(-4012))

\* the operand a shifter works on: a Float truncated to an Int
Truncated(v) == IF v.k = "Float" THEN IntV(W64(TruncFloat(v.v))) ELSE v

\* C31: a right shift by c > 0 keeps the tag of the operand (Int for a
\* Float operand, which is truncated first); the bits that enter from the
\* top are copies of the top bit under ArithShift and zeros under BitShift,
\* whether the operand is an Int or a Uint.
C31_RightShifts ==
    Shifted /\ CountOf(calc.r) > 0 =>
        LET c == CountOf(calc.r)
            v == Truncated(calc.l)
            top == IF calc.fn = "ArithShift" THEN BitOf(v.v, 63) ELSE 0
        IN /\ calc.res.k = v.k
           /\ \A i \in 0..63 :
                BitOf(calc.res.v, i)
                    = (IF i + c <= 63 THEN BitOf(v.v, i + c) ELSE top)

\* Float(-1003) shifted right by 4 bit-wise is Int(2^60 - 63)
C31_Witness ==
    /\ Calculated("BitShift")
    /\ calc.l = FloatQ(-10030, 10)
    /\ calc.r = FloatQ(40, 10)
    /\ calc.res = IntV(<<193, 255, 255, 255, 255, 255, 255, 15>>)

\* C33: round gives an Int or a Uint back unchanged under the modes
\* truncate, nearest, floor and ceil, and panics under every mode above
\* ceil, whatever the value.
C33_Round ==
    Calculated("Round") =>
        /\ calc.r.v > RoundCeil => calc.res = Panicked
        /\ calc.r.v <= RoundCeil /\ IsInteger(calc.l) => calc.res = calc.l

\* an integer was handed to round under a mode above ceil
C33_Witness ==
    /\ Calculated("Round")
    /\ calc.l = UintV(W64(-1003))
    /\ calc.r = Mode(4)
    /\ calc.res = Panicked
====
